---------------------------- MODULE Spec2Model ----------------------------
(***************************************************************************)
(* A model of the retrieval subsystem of DenarioApp:                       *)
(*   src/src/denario_app/graphrag.py     local corpus indexer and search   *)
(*   src/src/denario_app/rag_adapter.py  provider adapters, unified facade *)
(*                                                                         *)
(* Text is modelled as a sequence of one-character strings, so that the    *)
(* substring tests, the lowercasing and the regular expressions of the     *)
(* source are computed rather than assumed.                                *)
(***************************************************************************)
EXTENDS Integers, Sequences, FiniteSets, TLC

(***************************************************************************)
(* Bounds of the model.                                                    *)
(***************************************************************************)
\* the largest integer max_results the callers pass
MaxResults == 1
\* the largest number of entries an arXiv feed holds
MaxPapers == 1
\* the largest number of the three saves of one index_corpus call that fail
MaxSaveFaults == 1
\* the largest max_results the static domain adapter is called with
MaxDomainResults == 5

(***************************************************************************)
(* Program constants.                                                      *)
(***************************************************************************)
\* graphrag.py:154  content[:1000]
PreviewLen == 1000
\* graphrag.py:127  the co-occurrence window
WindowLen == 100
\* graphrag.py:73   authors[:10]
MaxAuthors == 10
\* graphrag.py:181  f.stat().st_size < 10 * 1024 * 1024
MaxFileSize == 10485760

(***************************************************************************)
(* Text.                                                                   *)
(***************************************************************************)
UpperCase ==
  << "A","B","C","D","E","F","G","H","I","J","K","L","M",
     "N","O","P","Q","R","S","T","U","V","W","X","Y","Z" >>

LowerCase ==
  << "a","b","c","d","e","f","g","h","i","j","k","l","m",
     "n","o","p","q","r","s","t","u","v","w","x","y","z" >>

\* The alphabet of the model is U+0000 to U+3000.  A printable ASCII
\* character other than the grave accent, a tab, a newline, a carriage
\* return and a form feed stand for themselves; every other character is
\* written "U+" and its code point in four hexadecimal digits.  The tables
\* below are those of Unicode 15, which str.lower(), str.strip() and the re
\* module of the interpreters that parse the modules use (Python 3.12 and
\* 3.13).

\* [0-9] of the character classes
AsciiDigits == {"0","1","2","3","4","5","6","7","8","9"}

\* [A-Z]
UpperSet == {UpperCase[i] : i \in 1..26}

\* [a-z]
LowerSet == {LowerCase[i] : i \in 1..26}

\* \d of a str pattern: the decimal digits of every script
Digits ==
  AsciiDigits \cup
  {"U+0660", "U+0661", "U+0662", "U+0663", "U+0664", "U+0665", "U+0666", "U+0667", "U+0668",
     "U+0669", "U+06F0", "U+06F1", "U+06F2", "U+06F3", "U+06F4", "U+06F5", "U+06F6", "U+06F7",
     "U+06F8", "U+06F9", "U+07C0", "U+07C1", "U+07C2", "U+07C3", "U+07C4", "U+07C5", "U+07C6",
     "U+07C7", "U+07C8", "U+07C9", "U+0966", "U+0967", "U+0968", "U+0969", "U+096A", "U+096B",
     "U+096C", "U+096D", "U+096E", "U+096F", "U+09E6", "U+09E7", "U+09E8", "U+09E9", "U+09EA",
     "U+09EB", "U+09EC", "U+09ED", "U+09EE", "U+09EF", "U+0A66", "U+0A67", "U+0A68", "U+0A69",
     "U+0A6A", "U+0A6B", "U+0A6C", "U+0A6D", "U+0A6E", "U+0A6F", "U+0AE6", "U+0AE7", "U+0AE8",
     "U+0AE9", "U+0AEA", "U+0AEB", "U+0AEC", "U+0AED", "U+0AEE", "U+0AEF", "U+0B66", "U+0B67",
     "U+0B68", "U+0B69", "U+0B6A", "U+0B6B", "U+0B6C", "U+0B6D", "U+0B6E", "U+0B6F", "U+0BE6",
     "U+0BE7", "U+0BE8", "U+0BE9", "U+0BEA", "U+0BEB", "U+0BEC", "U+0BED", "U+0BEE", "U+0BEF",
     "U+0C66", "U+0C67", "U+0C68", "U+0C69", "U+0C6A", "U+0C6B", "U+0C6C", "U+0C6D", "U+0C6E",
     "U+0C6F", "U+0CE6", "U+0CE7", "U+0CE8", "U+0CE9", "U+0CEA", "U+0CEB", "U+0CEC", "U+0CED",
     "U+0CEE", "U+0CEF", "U+0D66", "U+0D67", "U+0D68", "U+0D69", "U+0D6A", "U+0D6B", "U+0D6C",
     "U+0D6D", "U+0D6E", "U+0D6F", "U+0DE6", "U+0DE7", "U+0DE8", "U+0DE9", "U+0DEA", "U+0DEB",
     "U+0DEC", "U+0DED", "U+0DEE", "U+0DEF", "U+0E50", "U+0E51", "U+0E52", "U+0E53", "U+0E54",
     "U+0E55", "U+0E56", "U+0E57", "U+0E58", "U+0E59", "U+0ED0", "U+0ED1", "U+0ED2", "U+0ED3",
     "U+0ED4", "U+0ED5", "U+0ED6", "U+0ED7", "U+0ED8", "U+0ED9", "U+0F20", "U+0F21", "U+0F22",
     "U+0F23", "U+0F24", "U+0F25", "U+0F26", "U+0F27", "U+0F28", "U+0F29", "U+1040", "U+1041",
     "U+1042", "U+1043", "U+1044", "U+1045", "U+1046", "U+1047", "U+1048", "U+1049", "U+1090",
     "U+1091", "U+1092", "U+1093", "U+1094", "U+1095", "U+1096", "U+1097", "U+1098", "U+1099",
     "U+17E0", "U+17E1", "U+17E2", "U+17E3", "U+17E4", "U+17E5", "U+17E6", "U+17E7", "U+17E8",
     "U+17E9", "U+1810", "U+1811", "U+1812", "U+1813", "U+1814", "U+1815", "U+1816", "U+1817",
     "U+1818", "U+1819", "U+1946", "U+1947", "U+1948", "U+1949", "U+194A", "U+194B", "U+194C",
     "U+194D", "U+194E", "U+194F", "U+19D0", "U+19D1", "U+19D2", "U+19D3", "U+19D4", "U+19D5",
     "U+19D6", "U+19D7", "U+19D8", "U+19D9", "U+1A80", "U+1A81", "U+1A82", "U+1A83", "U+1A84",
     "U+1A85", "U+1A86", "U+1A87", "U+1A88", "U+1A89", "U+1A90", "U+1A91", "U+1A92", "U+1A93",
     "U+1A94", "U+1A95", "U+1A96", "U+1A97", "U+1A98", "U+1A99", "U+1B50", "U+1B51", "U+1B52",
     "U+1B53", "U+1B54", "U+1B55", "U+1B56", "U+1B57", "U+1B58", "U+1B59", "U+1BB0", "U+1BB1",
     "U+1BB2", "U+1BB3", "U+1BB4", "U+1BB5", "U+1BB6", "U+1BB7", "U+1BB8", "U+1BB9", "U+1C40",
     "U+1C41", "U+1C42", "U+1C43", "U+1C44", "U+1C45", "U+1C46", "U+1C47", "U+1C48", "U+1C49",
     "U+1C50", "U+1C51", "U+1C52", "U+1C53", "U+1C54", "U+1C55", "U+1C56", "U+1C57", "U+1C58",
     "U+1C59" }

\* \w of a str pattern, which \b is defined by: the alphanumeric characters
\* of every script and the underscore
WordChars ==
  UpperSet \cup LowerSet \cup AsciiDigits \cup {"_"} \cup
  {"U+00AA", "U+00B2", "U+00B3", "U+00B5", "U+00B9", "U+00BA", "U+00BC", "U+00BD", "U+00BE",
     "U+00C0", "U+00C1", "U+00C2", "U+00C3", "U+00C4", "U+00C5", "U+00C6", "U+00C7", "U+00C8",
     "U+00C9", "U+00CA", "U+00CB", "U+00CC", "U+00CD", "U+00CE", "U+00CF", "U+00D0", "U+00D1",
     "U+00D2", "U+00D3", "U+00D4", "U+00D5", "U+00D6", "U+00D8", "U+00D9", "U+00DA", "U+00DB",
     "U+00DC", "U+00DD", "U+00DE", "U+00DF", "U+00E0", "U+00E1", "U+00E2", "U+00E3", "U+00E4",
     "U+00E5", "U+00E6", "U+00E7", "U+00E8", "U+00E9", "U+00EA", "U+00EB", "U+00EC", "U+00ED",
     "U+00EE", "U+00EF", "U+00F0", "U+00F1", "U+00F2", "U+00F3", "U+00F4", "U+00F5", "U+00F6",
     "U+00F8", "U+00F9", "U+00FA", "U+00FB", "U+00FC", "U+00FD", "U+00FE", "U+00FF", "U+0100",
     "U+0101", "U+0102", "U+0103", "U+0104", "U+0105", "U+0106", "U+0107", "U+0108", "U+0109",
     "U+010A", "U+010B", "U+010C", "U+010D", "U+010E", "U+010F", "U+0110", "U+0111", "U+0112",
     "U+0113", "U+0114", "U+0115", "U+0116", "U+0117", "U+0118", "U+0119", "U+011A", "U+011B",
     "U+011C", "U+011D", "U+011E", "U+011F", "U+0120", "U+0121", "U+0122", "U+0123", "U+0124",
     "U+0125", "U+0126", "U+0127", "U+0128", "U+0129", "U+012A", "U+012B", "U+012C", "U+012D",
     "U+012E", "U+012F", "U+0130", "U+0131", "U+0132", "U+0133", "U+0134", "U+0135", "U+0136",
     "U+0137", "U+0138", "U+0139", "U+013A", "U+013B", "U+013C", "U+013D", "U+013E", "U+013F",
     "U+0140", "U+0141", "U+0142", "U+0143", "U+0144", "U+0145", "U+0146", "U+0147", "U+0148",
     "U+0149", "U+014A", "U+014B", "U+014C", "U+014D", "U+014E", "U+014F", "U+0150", "U+0151",
     "U+0152", "U+0153", "U+0154", "U+0155", "U+0156", "U+0157", "U+0158", "U+0159", "U+015A",
     "U+015B", "U+015C", "U+015D", "U+015E", "U+015F", "U+0160", "U+0161", "U+0162", "U+0163",
     "U+0164", "U+0165", "U+0166", "U+0167", "U+0168", "U+0169", "U+016A", "U+016B", "U+016C",
     "U+016D", "U+016E", "U+016F", "U+0170", "U+0171", "U+0172", "U+0173", "U+0174", "U+0175",
     "U+0176", "U+0177", "U+0178", "U+0179", "U+017A", "U+017B", "U+017C", "U+017D", "U+017E",
     "U+017F", "U+0180", "U+0181", "U+0182", "U+0183", "U+0184", "U+0185", "U+0186", "U+0187",
     "U+0188", "U+0189", "U+018A", "U+018B", "U+018C", "U+018D", "U+018E", "U+018F", "U+0190",
     "U+0191", "U+0192", "U+0193", "U+0194", "U+0195", "U+0196", "U+0197", "U+0198", "U+0199",
     "U+019A", "U+019B", "U+019C", "U+019D", "U+019E", "U+019F", "U+01A0", "U+01A1", "U+01A2",
     "U+01A3", "U+01A4", "U+01A5", "U+01A6", "U+01A7", "U+01A8", "U+01A9", "U+01AA", "U+01AB",
     "U+01AC", "U+01AD", "U+01AE", "U+01AF", "U+01B0", "U+01B1", "U+01B2", "U+01B3", "U+01B4",
     "U+01B5", "U+01B6", "U+01B7", "U+01B8", "U+01B9", "U+01BA", "U+01BB", "U+01BC", "U+01BD",
     "U+01BE", "U+01BF", "U+01C0", "U+01C1", "U+01C2", "U+01C3", "U+01C4", "U+01C5", "U+01C6",
     "U+01C7", "U+01C8", "U+01C9", "U+01CA", "U+01CB", "U+01CC", "U+01CD", "U+01CE", "U+01CF",
     "U+01D0", "U+01D1", "U+01D2", "U+01D3", "U+01D4", "U+01D5", "U+01D6", "U+01D7", "U+01D8",
     "U+01D9", "U+01DA", "U+01DB", "U+01DC", "U+01DD", "U+01DE", "U+01DF", "U+01E0", "U+01E1",
     "U+01E2", "U+01E3", "U+01E4", "U+01E5", "U+01E6", "U+01E7", "U+01E8", "U+01E9", "U+01EA",
     "U+01EB", "U+01EC", "U+01ED", "U+01EE", "U+01EF", "U+01F0", "U+01F1", "U+01F2", "U+01F3",
     "U+01F4", "U+01F5", "U+01F6", "U+01F7", "U+01F8", "U+01F9", "U+01FA", "U+01FB", "U+01FC",
     "U+01FD", "U+01FE", "U+01FF", "U+0200", "U+0201", "U+0202", "U+0203", "U+0204", "U+0205",
     "U+0206", "U+0207", "U+0208", "U+0209", "U+020A", "U+020B", "U+020C", "U+020D", "U+020E",
     "U+020F", "U+0210", "U+0211", "U+0212", "U+0213", "U+0214", "U+0215", "U+0216", "U+0217",
     "U+0218", "U+0219", "U+021A", "U+021B", "U+021C", "U+021D", "U+021E", "U+021F", "U+0220",
     "U+0221", "U+0222", "U+0223", "U+0224", "U+0225", "U+0226", "U+0227", "U+0228", "U+0229",
     "U+022A", "U+022B", "U+022C", "U+022D", "U+022E", "U+022F", "U+0230", "U+0231", "U+0232",
     "U+0233", "U+0234", "U+0235", "U+0236", "U+0237", "U+0238", "U+0239", "U+023A", "U+023B",
     "U+023C", "U+023D", "U+023E", "U+023F", "U+0240", "U+0241", "U+0242", "U+0243", "U+0244",
     "U+0245", "U+0246", "U+0247", "U+0248", "U+0249", "U+024A", "U+024B", "U+024C", "U+024D",
     "U+024E", "U+024F", "U+0250", "U+0251", "U+0252", "U+0253", "U+0254", "U+0255", "U+0256",
     "U+0257", "U+0258", "U+0259", "U+025A", "U+025B", "U+025C", "U+025D", "U+025E", "U+025F",
     "U+0260", "U+0261", "U+0262", "U+0263", "U+0264", "U+0265", "U+0266", "U+0267", "U+0268",
     "U+0269", "U+026A", "U+026B", "U+026C", "U+026D", "U+026E", "U+026F", "U+0270", "U+0271",
     "U+0272", "U+0273", "U+0274", "U+0275", "U+0276", "U+0277", "U+0278", "U+0279", "U+027A",
     "U+027B", "U+027C", "U+027D", "U+027E", "U+027F", "U+0280", "U+0281", "U+0282", "U+0283",
     "U+0284", "U+0285", "U+0286", "U+0287", "U+0288", "U+0289", "U+028A", "U+028B", "U+028C",
     "U+028D", "U+028E", "U+028F", "U+0290", "U+0291", "U+0292", "U+0293", "U+0294", "U+0295",
     "U+0296", "U+0297", "U+0298", "U+0299", "U+029A", "U+029B", "U+029C", "U+029D", "U+029E",
     "U+029F", "U+02A0", "U+02A1", "U+02A2", "U+02A3", "U+02A4", "U+02A5", "U+02A6", "U+02A7",
     "U+02A8", "U+02A9", "U+02AA", "U+02AB", "U+02AC", "U+02AD", "U+02AE", "U+02AF", "U+02B0",
     "U+02B1", "U+02B2", "U+02B3", "U+02B4", "U+02B5", "U+02B6", "U+02B7", "U+02B8", "U+02B9",
     "U+02BA", "U+02BB", "U+02BC", "U+02BD", "U+02BE", "U+02BF", "U+02C0", "U+02C1", "U+02C6",
     "U+02C7", "U+02C8", "U+02C9", "U+02CA", "U+02CB", "U+02CC", "U+02CD", "U+02CE", "U+02CF",
     "U+02D0", "U+02D1", "U+02E0", "U+02E1", "U+02E2", "U+02E3", "U+02E4", "U+02EC", "U+02EE",
     "U+0370", "U+0371", "U+0372", "U+0373", "U+0374", "U+0376", "U+0377", "U+037A", "U+037B",
     "U+037C", "U+037D", "U+037F", "U+0386", "U+0388", "U+0389", "U+038A", "U+038C", "U+038E",
     "U+038F", "U+0390", "U+0391", "U+0392", "U+0393", "U+0394", "U+0395", "U+0396", "U+0397",
     "U+0398", "U+0399", "U+039A", "U+039B", "U+039C", "U+039D", "U+039E", "U+039F", "U+03A0",
     "U+03A1", "U+03A3", "U+03A4", "U+03A5", "U+03A6", "U+03A7", "U+03A8", "U+03A9", "U+03AA",
     "U+03AB", "U+03AC", "U+03AD", "U+03AE", "U+03AF", "U+03B0", "U+03B1", "U+03B2", "U+03B3",
     "U+03B4", "U+03B5", "U+03B6", "U+03B7", "U+03B8", "U+03B9", "U+03BA", "U+03BB", "U+03BC",
     "U+03BD", "U+03BE", "U+03BF", "U+03C0", "U+03C1", "U+03C2", "U+03C3", "U+03C4", "U+03C5",
     "U+03C6", "U+03C7", "U+03C8", "U+03C9", "U+03CA", "U+03CB", "U+03CC", "U+03CD", "U+03CE",
     "U+03CF", "U+03D0", "U+03D1", "U+03D2", "U+03D3", "U+03D4", "U+03D5", "U+03D6", "U+03D7",
     "U+03D8", "U+03D9", "U+03DA", "U+03DB", "U+03DC", "U+03DD", "U+03DE", "U+03DF", "U+03E0",
     "U+03E1", "U+03E2", "U+03E3", "U+03E4", "U+03E5", "U+03E6", "U+03E7", "U+03E8", "U+03E9",
     "U+03EA", "U+03EB", "U+03EC", "U+03ED", "U+03EE", "U+03EF", "U+03F0", "U+03F1", "U+03F2",
     "U+03F3", "U+03F4", "U+03F5", "U+03F7", "U+03F8", "U+03F9", "U+03FA", "U+03FB", "U+03FC",
     "U+03FD", "U+03FE", "U+03FF", "U+0400", "U+0401", "U+0402", "U+0403", "U+0404", "U+0405",
     "U+0406", "U+0407", "U+0408", "U+0409", "U+040A", "U+040B", "U+040C", "U+040D", "U+040E",
     "U+040F", "U+0410", "U+0411", "U+0412", "U+0413", "U+0414", "U+0415", "U+0416", "U+0417",
     "U+0418", "U+0419", "U+041A", "U+041B", "U+041C", "U+041D", "U+041E", "U+041F", "U+0420",
     "U+0421", "U+0422", "U+0423", "U+0424", "U+0425", "U+0426", "U+0427", "U+0428", "U+0429",
     "U+042A", "U+042B", "U+042C", "U+042D", "U+042E", "U+042F", "U+0430", "U+0431", "U+0432",
     "U+0433", "U+0434", "U+0435", "U+0436", "U+0437", "U+0438", "U+0439", "U+043A", "U+043B",
     "U+043C", "U+043D", "U+043E", "U+043F", "U+0440", "U+0441", "U+0442", "U+0443", "U+0444",
     "U+0445", "U+0446", "U+0447", "U+0448", "U+0449", "U+044A", "U+044B", "U+044C", "U+044D",
     "U+044E", "U+044F", "U+0450", "U+0451", "U+0452", "U+0453", "U+0454", "U+0455", "U+0456",
     "U+0457", "U+0458", "U+0459", "U+045A", "U+045B", "U+045C", "U+045D", "U+045E", "U+045F",
     "U+0460", "U+0461", "U+0462", "U+0463", "U+0464", "U+0465", "U+0466", "U+0467", "U+0468",
     "U+0469", "U+046A", "U+046B", "U+046C", "U+046D", "U+046E", "U+046F", "U+0470", "U+0471",
     "U+0472", "U+0473", "U+0474", "U+0475", "U+0476", "U+0477", "U+0478", "U+0479", "U+047A",
     "U+047B", "U+047C", "U+047D", "U+047E", "U+047F", "U+0480", "U+0481", "U+048A", "U+048B",
     "U+048C", "U+048D", "U+048E", "U+048F", "U+0490", "U+0491", "U+0492", "U+0493", "U+0494",
     "U+0495", "U+0496", "U+0497", "U+0498", "U+0499", "U+049A", "U+049B", "U+049C", "U+049D",
     "U+049E", "U+049F", "U+04A0", "U+04A1", "U+04A2", "U+04A3", "U+04A4", "U+04A5", "U+04A6",
     "U+04A7", "U+04A8", "U+04A9", "U+04AA", "U+04AB", "U+04AC", "U+04AD", "U+04AE", "U+04AF",
     "U+04B0", "U+04B1", "U+04B2", "U+04B3", "U+04B4", "U+04B5", "U+04B6", "U+04B7", "U+04B8",
     "U+04B9", "U+04BA", "U+04BB", "U+04BC", "U+04BD", "U+04BE", "U+04BF", "U+04C0", "U+04C1",
     "U+04C2", "U+04C3", "U+04C4", "U+04C5", "U+04C6", "U+04C7", "U+04C8", "U+04C9", "U+04CA",
     "U+04CB", "U+04CC", "U+04CD", "U+04CE", "U+04CF", "U+04D0", "U+04D1", "U+04D2", "U+04D3",
     "U+04D4", "U+04D5", "U+04D6", "U+04D7", "U+04D8", "U+04D9", "U+04DA", "U+04DB", "U+04DC",
     "U+04DD", "U+04DE", "U+04DF", "U+04E0", "U+04E1", "U+04E2", "U+04E3", "U+04E4", "U+04E5",
     "U+04E6", "U+04E7", "U+04E8", "U+04E9", "U+04EA", "U+04EB", "U+04EC", "U+04ED", "U+04EE",
     "U+04EF", "U+04F0", "U+04F1", "U+04F2", "U+04F3", "U+04F4", "U+04F5", "U+04F6", "U+04F7",
     "U+04F8", "U+04F9", "U+04FA", "U+04FB", "U+04FC", "U+04FD", "U+04FE", "U+04FF", "U+0500",
     "U+0501", "U+0502", "U+0503", "U+0504", "U+0505", "U+0506", "U+0507", "U+0508", "U+0509",
     "U+050A", "U+050B", "U+050C", "U+050D", "U+050E", "U+050F", "U+0510", "U+0511", "U+0512",
     "U+0513", "U+0514", "U+0515", "U+0516", "U+0517", "U+0518", "U+0519", "U+051A", "U+051B",
     "U+051C", "U+051D", "U+051E", "U+051F", "U+0520", "U+0521", "U+0522", "U+0523", "U+0524",
     "U+0525", "U+0526", "U+0527", "U+0528", "U+0529", "U+052A", "U+052B", "U+052C", "U+052D",
     "U+052E", "U+052F", "U+0531", "U+0532", "U+0533", "U+0534", "U+0535", "U+0536", "U+0537",
     "U+0538", "U+0539", "U+053A", "U+053B", "U+053C", "U+053D", "U+053E", "U+053F", "U+0540",
     "U+0541", "U+0542", "U+0543", "U+0544", "U+0545", "U+0546", "U+0547", "U+0548", "U+0549",
     "U+054A", "U+054B", "U+054C", "U+054D", "U+054E", "U+054F", "U+0550", "U+0551", "U+0552",
     "U+0553", "U+0554", "U+0555", "U+0556", "U+0559", "U+0560", "U+0561", "U+0562", "U+0563",
     "U+0564", "U+0565", "U+0566", "U+0567", "U+0568", "U+0569", "U+056A", "U+056B", "U+056C",
     "U+056D", "U+056E", "U+056F", "U+0570", "U+0571", "U+0572", "U+0573", "U+0574", "U+0575",
     "U+0576", "U+0577", "U+0578", "U+0579", "U+057A", "U+057B", "U+057C", "U+057D", "U+057E",
     "U+057F", "U+0580", "U+0581", "U+0582", "U+0583", "U+0584", "U+0585", "U+0586", "U+0587",
     "U+0588", "U+05D0", "U+05D1", "U+05D2", "U+05D3", "U+05D4", "U+05D5", "U+05D6", "U+05D7",
     "U+05D8", "U+05D9", "U+05DA", "U+05DB", "U+05DC", "U+05DD", "U+05DE", "U+05DF", "U+05E0",
     "U+05E1", "U+05E2", "U+05E3", "U+05E4", "U+05E5", "U+05E6", "U+05E7", "U+05E8", "U+05E9",
     "U+05EA", "U+05EF", "U+05F0", "U+05F1", "U+05F2", "U+0620", "U+0621", "U+0622", "U+0623",
     "U+0624", "U+0625", "U+0626", "U+0627", "U+0628", "U+0629", "U+062A", "U+062B", "U+062C",
     "U+062D", "U+062E", "U+062F", "U+0630", "U+0631", "U+0632", "U+0633", "U+0634", "U+0635",
     "U+0636", "U+0637", "U+0638", "U+0639", "U+063A", "U+063B", "U+063C", "U+063D", "U+063E",
     "U+063F", "U+0640", "U+0641", "U+0642", "U+0643", "U+0644", "U+0645", "U+0646", "U+0647",
     "U+0648", "U+0649", "U+064A", "U+0660", "U+0661", "U+0662", "U+0663", "U+0664", "U+0665",
     "U+0666", "U+0667", "U+0668", "U+0669", "U+066E", "U+066F", "U+0671", "U+0672", "U+0673",
     "U+0674", "U+0675", "U+0676", "U+0677", "U+0678", "U+0679", "U+067A", "U+067B", "U+067C",
     "U+067D", "U+067E", "U+067F", "U+0680", "U+0681", "U+0682", "U+0683", "U+0684", "U+0685",
     "U+0686", "U+0687", "U+0688", "U+0689", "U+068A", "U+068B", "U+068C", "U+068D", "U+068E",
     "U+068F", "U+0690", "U+0691", "U+0692", "U+0693", "U+0694", "U+0695", "U+0696", "U+0697",
     "U+0698", "U+0699", "U+069A", "U+069B", "U+069C", "U+069D", "U+069E", "U+069F", "U+06A0",
     "U+06A1", "U+06A2", "U+06A3", "U+06A4", "U+06A5", "U+06A6", "U+06A7", "U+06A8", "U+06A9",
     "U+06AA", "U+06AB", "U+06AC", "U+06AD", "U+06AE", "U+06AF", "U+06B0", "U+06B1", "U+06B2",
     "U+06B3", "U+06B4", "U+06B5", "U+06B6", "U+06B7", "U+06B8", "U+06B9", "U+06BA", "U+06BB",
     "U+06BC", "U+06BD", "U+06BE", "U+06BF", "U+06C0", "U+06C1", "U+06C2", "U+06C3", "U+06C4",
     "U+06C5", "U+06C6", "U+06C7", "U+06C8", "U+06C9", "U+06CA", "U+06CB", "U+06CC", "U+06CD",
     "U+06CE", "U+06CF", "U+06D0", "U+06D1", "U+06D2", "U+06D3", "U+06D5", "U+06E5", "U+06E6",
     "U+06EE", "U+06EF", "U+06F0", "U+06F1", "U+06F2", "U+06F3", "U+06F4", "U+06F5", "U+06F6",
     "U+06F7", "U+06F8", "U+06F9", "U+06FA", "U+06FB", "U+06FC", "U+06FF", "U+0710", "U+0712",
     "U+0713", "U+0714", "U+0715", "U+0716", "U+0717", "U+0718", "U+0719", "U+071A", "U+071B",
     "U+071C", "U+071D", "U+071E", "U+071F", "U+0720", "U+0721", "U+0722", "U+0723", "U+0724",
     "U+0725", "U+0726", "U+0727", "U+0728", "U+0729", "U+072A", "U+072B", "U+072C", "U+072D",
     "U+072E", "U+072F", "U+074D", "U+074E", "U+074F", "U+0750", "U+0751", "U+0752", "U+0753",
     "U+0754", "U+0755", "U+0756", "U+0757", "U+0758", "U+0759", "U+075A", "U+075B", "U+075C",
     "U+075D", "U+075E", "U+075F", "U+0760", "U+0761", "U+0762", "U+0763", "U+0764", "U+0765",
     "U+0766", "U+0767", "U+0768", "U+0769", "U+076A", "U+076B", "U+076C", "U+076D", "U+076E",
     "U+076F", "U+0770", "U+0771", "U+0772", "U+0773", "U+0774", "U+0775", "U+0776", "U+0777",
     "U+0778", "U+0779", "U+077A", "U+077B", "U+077C", "U+077D", "U+077E", "U+077F", "U+0780",
     "U+0781", "U+0782", "U+0783", "U+0784", "U+0785", "U+0786", "U+0787", "U+0788", "U+0789",
     "U+078A", "U+078B", "U+078C", "U+078D", "U+078E", "U+078F", "U+0790", "U+0791", "U+0792",
     "U+0793", "U+0794", "U+0795", "U+0796", "U+0797", "U+0798", "U+0799", "U+079A", "U+079B",
     "U+079C", "U+079D", "U+079E", "U+079F", "U+07A0", "U+07A1", "U+07A2", "U+07A3", "U+07A4",
     "U+07A5", "U+07B1", "U+07C0", "U+07C1", "U+07C2", "U+07C3", "U+07C4", "U+07C5", "U+07C6",
     "U+07C7", "U+07C8", "U+07C9", "U+07CA", "U+07CB", "U+07CC", "U+07CD", "U+07CE", "U+07CF",
     "U+07D0", "U+07D1", "U+07D2", "U+07D3", "U+07D4", "U+07D5", "U+07D6", "U+07D7", "U+07D8",
     "U+07D9", "U+07DA", "U+07DB", "U+07DC", "U+07DD", "U+07DE", "U+07DF", "U+07E0", "U+07E1",
     "U+07E2", "U+07E3", "U+07E4", "U+07E5", "U+07E6", "U+07E7", "U+07E8", "U+07E9", "U+07EA",
     "U+07F4", "U+07F5", "U+07FA", "U+0800", "U+0801", "U+0802", "U+0803", "U+0804", "U+0805",
     "U+0806", "U+0807", "U+0808", "U+0809", "U+080A", "U+080B", "U+080C", "U+080D", "U+080E",
     "U+080F", "U+0810", "U+0811", "U+0812", "U+0813", "U+0814", "U+0815", "U+081A", "U+0824",
     "U+0828", "U+0840", "U+0841", "U+0842", "U+0843", "U+0844", "U+0845", "U+0846", "U+0847",
     "U+0848", "U+0849", "U+084A", "U+084B", "U+084C", "U+084D", "U+084E", "U+084F", "U+0850",
     "U+0851", "U+0852", "U+0853", "U+0854", "U+0855", "U+0856", "U+0857", "U+0858", "U+0860",
     "U+0861", "U+0862", "U+0863", "U+0864", "U+0865", "U+0866", "U+0867", "U+0868", "U+0869",
     "U+086A", "U+0870", "U+0871", "U+0872", "U+0873", "U+0874", "U+0875", "U+0876", "U+0877",
     "U+0878", "U+0879", "U+087A", "U+087B", "U+087C", "U+087D", "U+087E", "U+087F", "U+0880",
     "U+0881", "U+0882", "U+0883", "U+0884", "U+0885", "U+0886", "U+0887", "U+0889", "U+088A",
     "U+088B", "U+088C", "U+088D", "U+088E", "U+08A0", "U+08A1", "U+08A2", "U+08A3", "U+08A4",
     "U+08A5", "U+08A6", "U+08A7", "U+08A8", "U+08A9", "U+08AA", "U+08AB", "U+08AC", "U+08AD",
     "U+08AE", "U+08AF", "U+08B0", "U+08B1", "U+08B2", "U+08B3", "U+08B4", "U+08B5", "U+08B6",
     "U+08B7", "U+08B8", "U+08B9", "U+08BA", "U+08BB", "U+08BC", "U+08BD", "U+08BE", "U+08BF",
     "U+08C0", "U+08C1", "U+08C2", "U+08C3", "U+08C4", "U+08C5", "U+08C6", "U+08C7", "U+08C8",
     "U+08C9", "U+0904", "U+0905", "U+0906", "U+0907", "U+0908", "U+0909", "U+090A", "U+090B",
     "U+090C", "U+090D", "U+090E", "U+090F", "U+0910", "U+0911", "U+0912", "U+0913", "U+0914",
     "U+0915", "U+0916", "U+0917", "U+0918", "U+0919", "U+091A", "U+091B", "U+091C", "U+091D",
     "U+091E", "U+091F", "U+0920", "U+0921", "U+0922", "U+0923", "U+0924", "U+0925", "U+0926",
     "U+0927", "U+0928", "U+0929", "U+092A", "U+092B", "U+092C", "U+092D", "U+092E", "U+092F",
     "U+0930", "U+0931", "U+0932", "U+0933", "U+0934", "U+0935", "U+0936", "U+0937", "U+0938",
     "U+0939", "U+093D", "U+0950", "U+0958", "U+0959", "U+095A", "U+095B", "U+095C", "U+095D",
     "U+095E", "U+095F", "U+0960", "U+0961", "U+0966", "U+0967", "U+0968", "U+0969", "U+096A",
     "U+096B", "U+096C", "U+096D", "U+096E", "U+096F", "U+0971", "U+0972", "U+0973", "U+0974",
     "U+0975", "U+0976", "U+0977", "U+0978", "U+0979", "U+097A", "U+097B", "U+097C", "U+097D",
     "U+097E", "U+097F", "U+0980", "U+0985", "U+0986", "U+0987", "U+0988", "U+0989", "U+098A",
     "U+098B", "U+098C", "U+098F", "U+0990", "U+0993", "U+0994", "U+0995", "U+0996", "U+0997",
     "U+0998", "U+0999", "U+099A", "U+099B", "U+099C", "U+099D", "U+099E", "U+099F", "U+09A0",
     "U+09A1", "U+09A2", "U+09A3", "U+09A4", "U+09A5", "U+09A6", "U+09A7", "U+09A8", "U+09AA",
     "U+09AB", "U+09AC", "U+09AD", "U+09AE", "U+09AF", "U+09B0", "U+09B2", "U+09B6", "U+09B7",
     "U+09B8", "U+09B9", "U+09BD", "U+09CE", "U+09DC", "U+09DD", "U+09DF", "U+09E0", "U+09E1",
     "U+09E6", "U+09E7", "U+09E8", "U+09E9", "U+09EA", "U+09EB", "U+09EC", "U+09ED", "U+09EE",
     "U+09EF", "U+09F0", "U+09F1", "U+09F4", "U+09F5", "U+09F6", "U+09F7", "U+09F8", "U+09F9",
     "U+09FC", "U+0A05", "U+0A06", "U+0A07", "U+0A08", "U+0A09", "U+0A0A", "U+0A0F", "U+0A10",
     "U+0A13", "U+0A14", "U+0A15", "U+0A16", "U+0A17", "U+0A18", "U+0A19", "U+0A1A", "U+0A1B",
     "U+0A1C", "U+0A1D", "U+0A1E", "U+0A1F", "U+0A20", "U+0A21", "U+0A22", "U+0A23", "U+0A24",
     "U+0A25", "U+0A26", "U+0A27", "U+0A28", "U+0A2A", "U+0A2B", "U+0A2C", "U+0A2D", "U+0A2E",
     "U+0A2F", "U+0A30", "U+0A32", "U+0A33", "U+0A35", "U+0A36", "U+0A38", "U+0A39", "U+0A59",
     "U+0A5A", "U+0A5B", "U+0A5C", "U+0A5E", "U+0A66", "U+0A67", "U+0A68", "U+0A69", "U+0A6A",
     "U+0A6B", "U+0A6C", "U+0A6D", "U+0A6E", "U+0A6F", "U+0A72", "U+0A73", "U+0A74", "U+0A85",
     "U+0A86", "U+0A87", "U+0A88", "U+0A89", "U+0A8A", "U+0A8B", "U+0A8C", "U+0A8D", "U+0A8F",
     "U+0A90", "U+0A91", "U+0A93", "U+0A94", "U+0A95", "U+0A96", "U+0A97", "U+0A98", "U+0A99",
     "U+0A9A", "U+0A9B", "U+0A9C", "U+0A9D", "U+0A9E", "U+0A9F", "U+0AA0", "U+0AA1", "U+0AA2",
     "U+0AA3", "U+0AA4", "U+0AA5", "U+0AA6", "U+0AA7", "U+0AA8", "U+0AAA", "U+0AAB", "U+0AAC",
     "U+0AAD", "U+0AAE", "U+0AAF", "U+0AB0", "U+0AB2", "U+0AB3", "U+0AB5", "U+0AB6", "U+0AB7",
     "U+0AB8", "U+0AB9", "U+0ABD", "U+0AD0", "U+0AE0", "U+0AE1", "U+0AE6", "U+0AE7", "U+0AE8",
     "U+0AE9", "U+0AEA", "U+0AEB", "U+0AEC", "U+0AED", "U+0AEE", "U+0AEF", "U+0AF9", "U+0B05",
     "U+0B06", "U+0B07", "U+0B08", "U+0B09", "U+0B0A", "U+0B0B", "U+0B0C", "U+0B0F", "U+0B10",
     "U+0B13", "U+0B14", "U+0B15", "U+0B16", "U+0B17", "U+0B18", "U+0B19", "U+0B1A", "U+0B1B",
     "U+0B1C", "U+0B1D", "U+0B1E", "U+0B1F", "U+0B20", "U+0B21", "U+0B22", "U+0B23", "U+0B24",
     "U+0B25", "U+0B26", "U+0B27", "U+0B28", "U+0B2A", "U+0B2B", "U+0B2C", "U+0B2D", "U+0B2E",
     "U+0B2F", "U+0B30", "U+0B32", "U+0B33", "U+0B35", "U+0B36", "U+0B37", "U+0B38", "U+0B39",
     "U+0B3D", "U+0B5C", "U+0B5D", "U+0B5F", "U+0B60", "U+0B61", "U+0B66", "U+0B67", "U+0B68",
     "U+0B69", "U+0B6A", "U+0B6B", "U+0B6C", "U+0B6D", "U+0B6E", "U+0B6F", "U+0B71", "U+0B72",
     "U+0B73", "U+0B74", "U+0B75", "U+0B76", "U+0B77", "U+0B83", "U+0B85", "U+0B86", "U+0B87",
     "U+0B88", "U+0B89", "U+0B8A", "U+0B8E", "U+0B8F", "U+0B90", "U+0B92", "U+0B93", "U+0B94",
     "U+0B95", "U+0B99", "U+0B9A", "U+0B9C", "U+0B9E", "U+0B9F", "U+0BA3", "U+0BA4", "U+0BA8",
     "U+0BA9", "U+0BAA", "U+0BAE", "U+0BAF", "U+0BB0", "U+0BB1", "U+0BB2", "U+0BB3", "U+0BB4",
     "U+0BB5", "U+0BB6", "U+0BB7", "U+0BB8", "U+0BB9", "U+0BD0", "U+0BE6", "U+0BE7", "U+0BE8",
     "U+0BE9", "U+0BEA", "U+0BEB", "U+0BEC", "U+0BED", "U+0BEE", "U+0BEF", "U+0BF0", "U+0BF1",
     "U+0BF2", "U+0C05", "U+0C06", "U+0C07", "U+0C08", "U+0C09", "U+0C0A", "U+0C0B", "U+0C0C",
     "U+0C0E", "U+0C0F", "U+0C10", "U+0C12", "U+0C13", "U+0C14", "U+0C15", "U+0C16", "U+0C17",
     "U+0C18", "U+0C19", "U+0C1A", "U+0C1B", "U+0C1C", "U+0C1D", "U+0C1E", "U+0C1F", "U+0C20",
     "U+0C21", "U+0C22", "U+0C23", "U+0C24", "U+0C25", "U+0C26", "U+0C27", "U+0C28", "U+0C2A",
     "U+0C2B", "U+0C2C", "U+0C2D", "U+0C2E", "U+0C2F", "U+0C30", "U+0C31", "U+0C32", "U+0C33",
     "U+0C34", "U+0C35", "U+0C36", "U+0C37", "U+0C38", "U+0C39", "U+0C3D", "U+0C58", "U+0C59",
     "U+0C5A", "U+0C5D", "U+0C60", "U+0C61", "U+0C66", "U+0C67", "U+0C68", "U+0C69", "U+0C6A",
     "U+0C6B", "U+0C6C", "U+0C6D", "U+0C6E", "U+0C6F", "U+0C78", "U+0C79", "U+0C7A", "U+0C7B",
     "U+0C7C", "U+0C7D", "U+0C7E", "U+0C80", "U+0C85", "U+0C86", "U+0C87", "U+0C88", "U+0C89",
     "U+0C8A", "U+0C8B", "U+0C8C", "U+0C8E", "U+0C8F", "U+0C90", "U+0C92", "U+0C93", "U+0C94",
     "U+0C95", "U+0C96", "U+0C97", "U+0C98", "U+0C99", "U+0C9A", "U+0C9B", "U+0C9C", "U+0C9D",
     "U+0C9E", "U+0C9F", "U+0CA0", "U+0CA1", "U+0CA2", "U+0CA3", "U+0CA4", "U+0CA5", "U+0CA6",
     "U+0CA7", "U+0CA8", "U+0CAA", "U+0CAB", "U+0CAC", "U+0CAD", "U+0CAE", "U+0CAF", "U+0CB0",
     "U+0CB1", "U+0CB2", "U+0CB3", "U+0CB5", "U+0CB6", "U+0CB7", "U+0CB8", "U+0CB9", "U+0CBD",
     "U+0CDD", "U+0CDE", "U+0CE0", "U+0CE1", "U+0CE6", "U+0CE7", "U+0CE8", "U+0CE9", "U+0CEA",
     "U+0CEB", "U+0CEC", "U+0CED", "U+0CEE", "U+0CEF", "U+0CF1", "U+0CF2", "U+0D04", "U+0D05",
     "U+0D06", "U+0D07", "U+0D08", "U+0D09", "U+0D0A", "U+0D0B", "U+0D0C", "U+0D0E", "U+0D0F",
     "U+0D10", "U+0D12", "U+0D13", "U+0D14", "U+0D15", "U+0D16", "U+0D17", "U+0D18", "U+0D19",
     "U+0D1A", "U+0D1B", "U+0D1C", "U+0D1D", "U+0D1E", "U+0D1F", "U+0D20", "U+0D21", "U+0D22",
     "U+0D23", "U+0D24", "U+0D25", "U+0D26", "U+0D27", "U+0D28", "U+0D29", "U+0D2A", "U+0D2B",
     "U+0D2C", "U+0D2D", "U+0D2E", "U+0D2F", "U+0D30", "U+0D31", "U+0D32", "U+0D33", "U+0D34",
     "U+0D35", "U+0D36", "U+0D37", "U+0D38", "U+0D39", "U+0D3A", "U+0D3D", "U+0D4E", "U+0D54",
     "U+0D55", "U+0D56", "U+0D58", "U+0D59", "U+0D5A", "U+0D5B", "U+0D5C", "U+0D5D", "U+0D5E",
     "U+0D5F", "U+0D60", "U+0D61", "U+0D66", "U+0D67", "U+0D68", "U+0D69", "U+0D6A", "U+0D6B",
     "U+0D6C", "U+0D6D", "U+0D6E", "U+0D6F", "U+0D70", "U+0D71", "U+0D72", "U+0D73", "U+0D74",
     "U+0D75", "U+0D76", "U+0D77", "U+0D78", "U+0D7A", "U+0D7B", "U+0D7C", "U+0D7D", "U+0D7E",
     "U+0D7F", "U+0D85", "U+0D86", "U+0D87", "U+0D88", "U+0D89", "U+0D8A", "U+0D8B", "U+0D8C",
     "U+0D8D", "U+0D8E", "U+0D8F", "U+0D90", "U+0D91", "U+0D92", "U+0D93", "U+0D94", "U+0D95",
     "U+0D96", "U+0D9A", "U+0D9B", "U+0D9C", "U+0D9D", "U+0D9E", "U+0D9F", "U+0DA0", "U+0DA1",
     "U+0DA2", "U+0DA3", "U+0DA4", "U+0DA5", "U+0DA6", "U+0DA7", "U+0DA8", "U+0DA9", "U+0DAA",
     "U+0DAB", "U+0DAC", "U+0DAD", "U+0DAE", "U+0DAF", "U+0DB0", "U+0DB1", "U+0DB3", "U+0DB4",
     "U+0DB5", "U+0DB6", "U+0DB7", "U+0DB8", "U+0DB9", "U+0DBA", "U+0DBB", "U+0DBD", "U+0DC0",
     "U+0DC1", "U+0DC2", "U+0DC3", "U+0DC4", "U+0DC5", "U+0DC6", "U+0DE6", "U+0DE7", "U+0DE8",
     "U+0DE9", "U+0DEA", "U+0DEB", "U+0DEC", "U+0DED", "U+0DEE", "U+0DEF", "U+0E01", "U+0E02",
     "U+0E03", "U+0E04", "U+0E05", "U+0E06", "U+0E07", "U+0E08", "U+0E09", "U+0E0A", "U+0E0B",
     "U+0E0C", "U+0E0D", "U+0E0E", "U+0E0F", "U+0E10", "U+0E11", "U+0E12", "U+0E13", "U+0E14",
     "U+0E15", "U+0E16", "U+0E17", "U+0E18", "U+0E19", "U+0E1A", "U+0E1B", "U+0E1C", "U+0E1D",
     "U+0E1E", "U+0E1F", "U+0E20", "U+0E21", "U+0E22", "U+0E23", "U+0E24", "U+0E25", "U+0E26",
     "U+0E27", "U+0E28", "U+0E29", "U+0E2A", "U+0E2B", "U+0E2C", "U+0E2D", "U+0E2E", "U+0E2F",
     "U+0E30", "U+0E32", "U+0E33", "U+0E40", "U+0E41", "U+0E42", "U+0E43", "U+0E44", "U+0E45",
     "U+0E46", "U+0E50", "U+0E51", "U+0E52", "U+0E53", "U+0E54", "U+0E55", "U+0E56", "U+0E57",
     "U+0E58", "U+0E59", "U+0E81", "U+0E82", "U+0E84", "U+0E86", "U+0E87", "U+0E88", "U+0E89",
     "U+0E8A", "U+0E8C", "U+0E8D", "U+0E8E", "U+0E8F", "U+0E90", "U+0E91", "U+0E92", "U+0E93",
     "U+0E94", "U+0E95", "U+0E96", "U+0E97", "U+0E98", "U+0E99", "U+0E9A", "U+0E9B", "U+0E9C",
     "U+0E9D", "U+0E9E", "U+0E9F", "U+0EA0", "U+0EA1", "U+0EA2", "U+0EA3", "U+0EA5", "U+0EA7",
     "U+0EA8", "U+0EA9", "U+0EAA", "U+0EAB", "U+0EAC", "U+0EAD", "U+0EAE", "U+0EAF", "U+0EB0",
     "U+0EB2", "U+0EB3", "U+0EBD", "U+0EC0", "U+0EC1", "U+0EC2", "U+0EC3", "U+0EC4", "U+0EC6",
     "U+0ED0", "U+0ED1", "U+0ED2", "U+0ED3", "U+0ED4", "U+0ED5", "U+0ED6", "U+0ED7", "U+0ED8",
     "U+0ED9", "U+0EDC", "U+0EDD", "U+0EDE", "U+0EDF", "U+0F00", "U+0F20", "U+0F21", "U+0F22",
     "U+0F23", "U+0F24", "U+0F25", "U+0F26", "U+0F27", "U+0F28", "U+0F29", "U+0F2A", "U+0F2B",
     "U+0F2C", "U+0F2D", "U+0F2E", "U+0F2F", "U+0F30", "U+0F31", "U+0F32", "U+0F33", "U+0F40",
     "U+0F41", "U+0F42", "U+0F43", "U+0F44", "U+0F45", "U+0F46", "U+0F47", "U+0F49", "U+0F4A",
     "U+0F4B", "U+0F4C", "U+0F4D", "U+0F4E", "U+0F4F", "U+0F50", "U+0F51", "U+0F52", "U+0F53",
     "U+0F54", "U+0F55", "U+0F56", "U+0F57", "U+0F58", "U+0F59", "U+0F5A", "U+0F5B", "U+0F5C",
     "U+0F5D", "U+0F5E", "U+0F5F", "U+0F60", "U+0F61", "U+0F62", "U+0F63", "U+0F64", "U+0F65",
     "U+0F66", "U+0F67", "U+0F68", "U+0F69", "U+0F6A", "U+0F6B", "U+0F6C", "U+0F88", "U+0F89",
     "U+0F8A", "U+0F8B", "U+0F8C", "U+1000", "U+1001", "U+1002", "U+1003", "U+1004", "U+1005",
     "U+1006", "U+1007", "U+1008", "U+1009", "U+100A", "U+100B", "U+100C", "U+100D", "U+100E",
     "U+100F", "U+1010", "U+1011", "U+1012", "U+1013", "U+1014", "U+1015", "U+1016", "U+1017",
     "U+1018", "U+1019", "U+101A", "U+101B", "U+101C", "U+101D", "U+101E", "U+101F", "U+1020",
     "U+1021", "U+1022", "U+1023", "U+1024", "U+1025", "U+1026", "U+1027", "U+1028", "U+1029",
     "U+102A", "U+103F", "U+1040", "U+1041", "U+1042", "U+1043", "U+1044", "U+1045", "U+1046",
     "U+1047", "U+1048", "U+1049", "U+1050", "U+1051", "U+1052", "U+1053", "U+1054", "U+1055",
     "U+105A", "U+105B", "U+105C", "U+105D", "U+1061", "U+1065", "U+1066", "U+106E", "U+106F",
     "U+1070", "U+1075", "U+1076", "U+1077", "U+1078", "U+1079", "U+107A", "U+107B", "U+107C",
     "U+107D", "U+107E", "U+107F", "U+1080", "U+1081", "U+108E", "U+1090", "U+1091", "U+1092",
     "U+1093", "U+1094", "U+1095", "U+1096", "U+1097", "U+1098", "U+1099", "U+10A0", "U+10A1",
     "U+10A2", "U+10A3", "U+10A4", "U+10A5", "U+10A6", "U+10A7", "U+10A8", "U+10A9", "U+10AA",
     "U+10AB", "U+10AC", "U+10AD", "U+10AE", "U+10AF", "U+10B0", "U+10B1", "U+10B2", "U+10B3",
     "U+10B4", "U+10B5", "U+10B6", "U+10B7", "U+10B8", "U+10B9", "U+10BA", "U+10BB", "U+10BC",
     "U+10BD", "U+10BE", "U+10BF", "U+10C0", "U+10C1", "U+10C2", "U+10C3", "U+10C4", "U+10C5",
     "U+10C7", "U+10CD", "U+10D0", "U+10D1", "U+10D2", "U+10D3", "U+10D4", "U+10D5", "U+10D6",
     "U+10D7", "U+10D8", "U+10D9", "U+10DA", "U+10DB", "U+10DC", "U+10DD", "U+10DE", "U+10DF",
     "U+10E0", "U+10E1", "U+10E2", "U+10E3", "U+10E4", "U+10E5", "U+10E6", "U+10E7", "U+10E8",
     "U+10E9", "U+10EA", "U+10EB", "U+10EC", "U+10ED", "U+10EE", "U+10EF", "U+10F0", "U+10F1",
     "U+10F2", "U+10F3", "U+10F4", "U+10F5", "U+10F6", "U+10F7", "U+10F8", "U+10F9", "U+10FA",
     "U+10FC", "U+10FD", "U+10FE", "U+10FF", "U+1100", "U+1101", "U+1102", "U+1103", "U+1104",
     "U+1105", "U+1106", "U+1107", "U+1108", "U+1109", "U+110A", "U+110B", "U+110C", "U+110D",
     "U+110E", "U+110F", "U+1110", "U+1111", "U+1112", "U+1113", "U+1114", "U+1115", "U+1116",
     "U+1117", "U+1118", "U+1119", "U+111A", "U+111B", "U+111C", "U+111D", "U+111E", "U+111F",
     "U+1120", "U+1121", "U+1122", "U+1123", "U+1124", "U+1125", "U+1126", "U+1127", "U+1128",
     "U+1129", "U+112A", "U+112B", "U+112C", "U+112D", "U+112E", "U+112F", "U+1130", "U+1131",
     "U+1132", "U+1133", "U+1134", "U+1135", "U+1136", "U+1137", "U+1138", "U+1139", "U+113A",
     "U+113B", "U+113C", "U+113D", "U+113E", "U+113F", "U+1140", "U+1141", "U+1142", "U+1143",
     "U+1144", "U+1145", "U+1146", "U+1147", "U+1148", "U+1149", "U+114A", "U+114B", "U+114C",
     "U+114D", "U+114E", "U+114F", "U+1150", "U+1151", "U+1152", "U+1153", "U+1154", "U+1155",
     "U+1156", "U+1157", "U+1158", "U+1159", "U+115A", "U+115B", "U+115C", "U+115D", "U+115E",
     "U+115F", "U+1160", "U+1161", "U+1162", "U+1163", "U+1164", "U+1165", "U+1166", "U+1167",
     "U+1168", "U+1169", "U+116A", "U+116B", "U+116C", "U+116D", "U+116E", "U+116F", "U+1170",
     "U+1171", "U+1172", "U+1173", "U+1174", "U+1175", "U+1176", "U+1177", "U+1178", "U+1179",
     "U+117A", "U+117B", "U+117C", "U+117D", "U+117E", "U+117F", "U+1180", "U+1181", "U+1182",
     "U+1183", "U+1184", "U+1185", "U+1186", "U+1187", "U+1188", "U+1189", "U+118A", "U+118B",
     "U+118C", "U+118D", "U+118E", "U+118F", "U+1190", "U+1191", "U+1192", "U+1193", "U+1194",
     "U+1195", "U+1196", "U+1197", "U+1198", "U+1199", "U+119A", "U+119B", "U+119C", "U+119D",
     "U+119E", "U+119F", "U+11A0", "U+11A1", "U+11A2", "U+11A3", "U+11A4", "U+11A5", "U+11A6",
     "U+11A7", "U+11A8", "U+11A9", "U+11AA", "U+11AB", "U+11AC", "U+11AD", "U+11AE", "U+11AF",
     "U+11B0", "U+11B1", "U+11B2", "U+11B3", "U+11B4", "U+11B5", "U+11B6", "U+11B7", "U+11B8",
     "U+11B9", "U+11BA", "U+11BB", "U+11BC", "U+11BD", "U+11BE", "U+11BF", "U+11C0", "U+11C1",
     "U+11C2", "U+11C3", "U+11C4", "U+11C5", "U+11C6", "U+11C7", "U+11C8", "U+11C9", "U+11CA",
     "U+11CB", "U+11CC", "U+11CD", "U+11CE", "U+11CF", "U+11D0", "U+11D1", "U+11D2", "U+11D3",
     "U+11D4", "U+11D5", "U+11D6", "U+11D7", "U+11D8", "U+11D9", "U+11DA", "U+11DB", "U+11DC",
     "U+11DD", "U+11DE", "U+11DF", "U+11E0", "U+11E1", "U+11E2", "U+11E3", "U+11E4", "U+11E5",
     "U+11E6", "U+11E7", "U+11E8", "U+11E9", "U+11EA", "U+11EB", "U+11EC", "U+11ED", "U+11EE",
     "U+11EF", "U+11F0", "U+11F1", "U+11F2", "U+11F3", "U+11F4", "U+11F5", "U+11F6", "U+11F7",
     "U+11F8", "U+11F9", "U+11FA", "U+11FB", "U+11FC", "U+11FD", "U+11FE", "U+11FF", "U+1200",
     "U+1201", "U+1202", "U+1203", "U+1204", "U+1205", "U+1206", "U+1207", "U+1208", "U+1209",
     "U+120A", "U+120B", "U+120C", "U+120D", "U+120E", "U+120F", "U+1210", "U+1211", "U+1212",
     "U+1213", "U+1214", "U+1215", "U+1216", "U+1217", "U+1218", "U+1219", "U+121A", "U+121B",
     "U+121C", "U+121D", "U+121E", "U+121F", "U+1220", "U+1221", "U+1222", "U+1223", "U+1224",
     "U+1225", "U+1226", "U+1227", "U+1228", "U+1229", "U+122A", "U+122B", "U+122C", "U+122D",
     "U+122E", "U+122F", "U+1230", "U+1231", "U+1232", "U+1233", "U+1234", "U+1235", "U+1236",
     "U+1237", "U+1238", "U+1239", "U+123A", "U+123B", "U+123C", "U+123D", "U+123E", "U+123F",
     "U+1240", "U+1241", "U+1242", "U+1243", "U+1244", "U+1245", "U+1246", "U+1247", "U+1248",
     "U+124A", "U+124B", "U+124C", "U+124D", "U+1250", "U+1251", "U+1252", "U+1253", "U+1254",
     "U+1255", "U+1256", "U+1258", "U+125A", "U+125B", "U+125C", "U+125D", "U+1260", "U+1261",
     "U+1262", "U+1263", "U+1264", "U+1265", "U+1266", "U+1267", "U+1268", "U+1269", "U+126A",
     "U+126B", "U+126C", "U+126D", "U+126E", "U+126F", "U+1270", "U+1271", "U+1272", "U+1273",
     "U+1274", "U+1275", "U+1276", "U+1277", "U+1278", "U+1279", "U+127A", "U+127B", "U+127C",
     "U+127D", "U+127E", "U+127F", "U+1280", "U+1281", "U+1282", "U+1283", "U+1284", "U+1285",
     "U+1286", "U+1287", "U+1288", "U+128A", "U+128B", "U+128C", "U+128D", "U+1290", "U+1291",
     "U+1292", "U+1293", "U+1294", "U+1295", "U+1296", "U+1297", "U+1298", "U+1299", "U+129A",
     "U+129B", "U+129C", "U+129D", "U+129E", "U+129F", "U+12A0", "U+12A1", "U+12A2", "U+12A3",
     "U+12A4", "U+12A5", "U+12A6", "U+12A7", "U+12A8", "U+12A9", "U+12AA", "U+12AB", "U+12AC",
     "U+12AD", "U+12AE", "U+12AF", "U+12B0", "U+12B2", "U+12B3", "U+12B4", "U+12B5", "U+12B8",
     "U+12B9", "U+12BA", "U+12BB", "U+12BC", "U+12BD", "U+12BE", "U+12C0", "U+12C2", "U+12C3",
     "U+12C4", "U+12C5", "U+12C8", "U+12C9", "U+12CA", "U+12CB", "U+12CC", "U+12CD", "U+12CE",
     "U+12CF", "U+12D0", "U+12D1", "U+12D2", "U+12D3", "U+12D4", "U+12D5", "U+12D6", "U+12D8",
     "U+12D9", "U+12DA", "U+12DB", "U+12DC", "U+12DD", "U+12DE", "U+12DF", "U+12E0", "U+12E1",
     "U+12E2", "U+12E3", "U+12E4", "U+12E5", "U+12E6", "U+12E7", "U+12E8", "U+12E9", "U+12EA",
     "U+12EB", "U+12EC", "U+12ED", "U+12EE", "U+12EF", "U+12F0", "U+12F1", "U+12F2", "U+12F3",
     "U+12F4", "U+12F5", "U+12F6", "U+12F7", "U+12F8", "U+12F9", "U+12FA", "U+12FB", "U+12FC",
     "U+12FD", "U+12FE", "U+12FF", "U+1300", "U+1301", "U+1302", "U+1303", "U+1304", "U+1305",
     "U+1306", "U+1307", "U+1308", "U+1309", "U+130A", "U+130B", "U+130C", "U+130D", "U+130E",
     "U+130F", "U+1310", "U+1312", "U+1313", "U+1314", "U+1315", "U+1318", "U+1319", "U+131A",
     "U+131B", "U+131C", "U+131D", "U+131E", "U+131F", "U+1320", "U+1321", "U+1322", "U+1323",
     "U+1324", "U+1325", "U+1326", "U+1327", "U+1328", "U+1329", "U+132A", "U+132B", "U+132C",
     "U+132D", "U+132E", "U+132F", "U+1330", "U+1331", "U+1332", "U+1333", "U+1334", "U+1335",
     "U+1336", "U+1337", "U+1338", "U+1339", "U+133A", "U+133B", "U+133C", "U+133D", "U+133E",
     "U+133F", "U+1340", "U+1341", "U+1342", "U+1343", "U+1344", "U+1345", "U+1346", "U+1347",
     "U+1348", "U+1349", "U+134A", "U+134B", "U+134C", "U+134D", "U+134E", "U+134F", "U+1350",
     "U+1351", "U+1352", "U+1353", "U+1354", "U+1355", "U+1356", "U+1357", "U+1358", "U+1359",
     "U+135A", "U+1369", "U+136A", "U+136B", "U+136C", "U+136D", "U+136E", "U+136F", "U+1370",
     "U+1371", "U+1372", "U+1373", "U+1374", "U+1375", "U+1376", "U+1377", "U+1378", "U+1379",
     "U+137A", "U+137B", "U+137C", "U+1380", "U+1381", "U+1382", "U+1383", "U+1384", "U+1385",
     "U+1386", "U+1387", "U+1388", "U+1389", "U+138A", "U+138B", "U+138C", "U+138D", "U+138E",
     "U+138F", "U+13A0", "U+13A1", "U+13A2", "U+13A3", "U+13A4", "U+13A5", "U+13A6", "U+13A7",
     "U+13A8", "U+13A9", "U+13AA", "U+13AB", "U+13AC", "U+13AD", "U+13AE", "U+13AF", "U+13B0",
     "U+13B1", "U+13B2", "U+13B3", "U+13B4", "U+13B5", "U+13B6", "U+13B7", "U+13B8", "U+13B9",
     "U+13BA", "U+13BB", "U+13BC", "U+13BD", "U+13BE", "U+13BF", "U+13C0", "U+13C1", "U+13C2",
     "U+13C3", "U+13C4", "U+13C5", "U+13C6", "U+13C7", "U+13C8", "U+13C9", "U+13CA", "U+13CB",
     "U+13CC", "U+13CD", "U+13CE", "U+13CF", "U+13D0", "U+13D1", "U+13D2", "U+13D3", "U+13D4",
     "U+13D5", "U+13D6", "U+13D7", "U+13D8", "U+13D9", "U+13DA", "U+13DB", "U+13DC", "U+13DD",
     "U+13DE", "U+13DF", "U+13E0", "U+13E1", "U+13E2", "U+13E3", "U+13E4", "U+13E5", "U+13E6",
     "U+13E7", "U+13E8", "U+13E9", "U+13EA", "U+13EB", "U+13EC", "U+13ED", "U+13EE", "U+13EF",
     "U+13F0", "U+13F1", "U+13F2", "U+13F3", "U+13F4", "U+13F5", "U+13F8", "U+13F9", "U+13FA",
     "U+13FB", "U+13FC", "U+13FD", "U+1401", "U+1402", "U+1403", "U+1404", "U+1405", "U+1406",
     "U+1407", "U+1408", "U+1409", "U+140A", "U+140B", "U+140C", "U+140D", "U+140E", "U+140F",
     "U+1410", "U+1411", "U+1412", "U+1413", "U+1414", "U+1415", "U+1416", "U+1417", "U+1418",
     "U+1419", "U+141A", "U+141B", "U+141C", "U+141D", "U+141E", "U+141F", "U+1420", "U+1421",
     "U+1422", "U+1423", "U+1424", "U+1425", "U+1426", "U+1427", "U+1428", "U+1429", "U+142A",
     "U+142B", "U+142C", "U+142D", "U+142E", "U+142F", "U+1430", "U+1431", "U+1432", "U+1433",
     "U+1434", "U+1435", "U+1436", "U+1437", "U+1438", "U+1439", "U+143A", "U+143B", "U+143C",
     "U+143D", "U+143E", "U+143F", "U+1440", "U+1441", "U+1442", "U+1443", "U+1444", "U+1445",
     "U+1446", "U+1447", "U+1448", "U+1449", "U+144A", "U+144B", "U+144C", "U+144D", "U+144E",
     "U+144F", "U+1450", "U+1451", "U+1452", "U+1453", "U+1454", "U+1455", "U+1456", "U+1457",
     "U+1458", "U+1459", "U+145A", "U+145B", "U+145C", "U+145D", "U+145E", "U+145F", "U+1460",
     "U+1461", "U+1462", "U+1463", "U+1464", "U+1465", "U+1466", "U+1467", "U+1468", "U+1469",
     "U+146A", "U+146B", "U+146C", "U+146D", "U+146E", "U+146F", "U+1470", "U+1471", "U+1472",
     "U+1473", "U+1474", "U+1475", "U+1476", "U+1477", "U+1478", "U+1479", "U+147A", "U+147B",
     "U+147C", "U+147D", "U+147E", "U+147F", "U+1480", "U+1481", "U+1482", "U+1483", "U+1484",
     "U+1485", "U+1486", "U+1487", "U+1488", "U+1489", "U+148A", "U+148B", "U+148C", "U+148D",
     "U+148E", "U+148F", "U+1490", "U+1491", "U+1492", "U+1493", "U+1494", "U+1495", "U+1496",
     "U+1497", "U+1498", "U+1499", "U+149A", "U+149B", "U+149C", "U+149D", "U+149E", "U+149F",
     "U+14A0", "U+14A1", "U+14A2", "U+14A3", "U+14A4", "U+14A5", "U+14A6", "U+14A7", "U+14A8",
     "U+14A9", "U+14AA", "U+14AB", "U+14AC", "U+14AD", "U+14AE", "U+14AF", "U+14B0", "U+14B1",
     "U+14B2", "U+14B3", "U+14B4", "U+14B5", "U+14B6", "U+14B7", "U+14B8", "U+14B9", "U+14BA",
     "U+14BB", "U+14BC", "U+14BD", "U+14BE", "U+14BF", "U+14C0", "U+14C1", "U+14C2", "U+14C3",
     "U+14C4", "U+14C5", "U+14C6", "U+14C7", "U+14C8", "U+14C9", "U+14CA", "U+14CB", "U+14CC",
     "U+14CD", "U+14CE", "U+14CF", "U+14D0", "U+14D1", "U+14D2", "U+14D3", "U+14D4", "U+14D5",
     "U+14D6", "U+14D7", "U+14D8", "U+14D9", "U+14DA", "U+14DB", "U+14DC", "U+14DD", "U+14DE",
     "U+14DF", "U+14E0", "U+14E1", "U+14E2", "U+14E3", "U+14E4", "U+14E5", "U+14E6", "U+14E7",
     "U+14E8", "U+14E9", "U+14EA", "U+14EB", "U+14EC", "U+14ED", "U+14EE", "U+14EF", "U+14F0",
     "U+14F1", "U+14F2", "U+14F3", "U+14F4", "U+14F5", "U+14F6", "U+14F7", "U+14F8", "U+14F9",
     "U+14FA", "U+14FB", "U+14FC", "U+14FD", "U+14FE", "U+14FF", "U+1500", "U+1501", "U+1502",
     "U+1503", "U+1504", "U+1505", "U+1506", "U+1507", "U+1508", "U+1509", "U+150A", "U+150B",
     "U+150C", "U+150D", "U+150E", "U+150F", "U+1510", "U+1511", "U+1512", "U+1513", "U+1514",
     "U+1515", "U+1516", "U+1517", "U+1518", "U+1519", "U+151A", "U+151B", "U+151C", "U+151D",
     "U+151E", "U+151F", "U+1520", "U+1521", "U+1522", "U+1523", "U+1524", "U+1525", "U+1526",
     "U+1527", "U+1528", "U+1529", "U+152A", "U+152B", "U+152C", "U+152D", "U+152E", "U+152F",
     "U+1530", "U+1531", "U+1532", "U+1533", "U+1534", "U+1535", "U+1536", "U+1537", "U+1538",
     "U+1539", "U+153A", "U+153B", "U+153C", "U+153D", "U+153E", "U+153F", "U+1540", "U+1541",
     "U+1542", "U+1543", "U+1544", "U+1545", "U+1546", "U+1547", "U+1548", "U+1549", "U+154A",
     "U+154B", "U+154C", "U+154D", "U+154E", "U+154F", "U+1550", "U+1551", "U+1552", "U+1553",
     "U+1554", "U+1555", "U+1556", "U+1557", "U+1558", "U+1559", "U+155A", "U+155B", "U+155C",
     "U+155D", "U+155E", "U+155F", "U+1560", "U+1561", "U+1562", "U+1563", "U+1564", "U+1565",
     "U+1566", "U+1567", "U+1568", "U+1569", "U+156A", "U+156B", "U+156C", "U+156D", "U+156E",
     "U+156F", "U+1570", "U+1571", "U+1572", "U+1573", "U+1574", "U+1575", "U+1576", "U+1577",
     "U+1578", "U+1579", "U+157A", "U+157B", "U+157C", "U+157D", "U+157E", "U+157F", "U+1580",
     "U+1581", "U+1582", "U+1583", "U+1584", "U+1585", "U+1586", "U+1587", "U+1588", "U+1589",
     "U+158A", "U+158B", "U+158C", "U+158D", "U+158E", "U+158F", "U+1590", "U+1591", "U+1592",
     "U+1593", "U+1594", "U+1595", "U+1596", "U+1597", "U+1598", "U+1599", "U+159A", "U+159B",
     "U+159C", "U+159D", "U+159E", "U+159F", "U+15A0", "U+15A1", "U+15A2", "U+15A3", "U+15A4",
     "U+15A5", "U+15A6", "U+15A7", "U+15A8", "U+15A9", "U+15AA", "U+15AB", "U+15AC", "U+15AD",
     "U+15AE", "U+15AF", "U+15B0", "U+15B1", "U+15B2", "U+15B3", "U+15B4", "U+15B5", "U+15B6",
     "U+15B7", "U+15B8", "U+15B9", "U+15BA", "U+15BB", "U+15BC", "U+15BD", "U+15BE", "U+15BF",
     "U+15C0", "U+15C1", "U+15C2", "U+15C3", "U+15C4", "U+15C5", "U+15C6", "U+15C7", "U+15C8",
     "U+15C9", "U+15CA", "U+15CB", "U+15CC", "U+15CD", "U+15CE", "U+15CF", "U+15D0", "U+15D1",
     "U+15D2", "U+15D3", "U+15D4", "U+15D5", "U+15D6", "U+15D7", "U+15D8", "U+15D9", "U+15DA",
     "U+15DB", "U+15DC", "U+15DD", "U+15DE", "U+15DF", "U+15E0", "U+15E1", "U+15E2", "U+15E3",
     "U+15E4", "U+15E5", "U+15E6", "U+15E7", "U+15E8", "U+15E9", "U+15EA", "U+15EB", "U+15EC",
     "U+15ED", "U+15EE", "U+15EF", "U+15F0", "U+15F1", "U+15F2", "U+15F3", "U+15F4", "U+15F5",
     "U+15F6", "U+15F7", "U+15F8", "U+15F9", "U+15FA", "U+15FB", "U+15FC", "U+15FD", "U+15FE",
     "U+15FF", "U+1600", "U+1601", "U+1602", "U+1603", "U+1604", "U+1605", "U+1606", "U+1607",
     "U+1608", "U+1609", "U+160A", "U+160B", "U+160C", "U+160D", "U+160E", "U+160F", "U+1610",
     "U+1611", "U+1612", "U+1613", "U+1614", "U+1615", "U+1616", "U+1617", "U+1618", "U+1619",
     "U+161A", "U+161B", "U+161C", "U+161D", "U+161E", "U+161F", "U+1620", "U+1621", "U+1622",
     "U+1623", "U+1624", "U+1625", "U+1626", "U+1627", "U+1628", "U+1629", "U+162A", "U+162B",
     "U+162C", "U+162D", "U+162E", "U+162F", "U+1630", "U+1631", "U+1632", "U+1633", "U+1634",
     "U+1635", "U+1636", "U+1637", "U+1638", "U+1639", "U+163A", "U+163B", "U+163C", "U+163D",
     "U+163E", "U+163F", "U+1640", "U+1641", "U+1642", "U+1643", "U+1644", "U+1645", "U+1646",
     "U+1647", "U+1648", "U+1649", "U+164A", "U+164B", "U+164C", "U+164D", "U+164E", "U+164F",
     "U+1650", "U+1651", "U+1652", "U+1653", "U+1654", "U+1655", "U+1656", "U+1657", "U+1658",
     "U+1659", "U+165A", "U+165B", "U+165C", "U+165D", "U+165E", "U+165F", "U+1660", "U+1661",
     "U+1662", "U+1663", "U+1664", "U+1665", "U+1666", "U+1667", "U+1668", "U+1669", "U+166A",
     "U+166B", "U+166C", "U+166F", "U+1670", "U+1671", "U+1672", "U+1673", "U+1674", "U+1675",
     "U+1676", "U+1677", "U+1678", "U+1679", "U+167A", "U+167B", "U+167C", "U+167D", "U+167E",
     "U+167F", "U+1681", "U+1682", "U+1683", "U+1684", "U+1685", "U+1686", "U+1687", "U+1688",
     "U+1689", "U+168A", "U+168B", "U+168C", "U+168D", "U+168E", "U+168F", "U+1690", "U+1691",
     "U+1692", "U+1693", "U+1694", "U+1695", "U+1696", "U+1697", "U+1698", "U+1699", "U+169A",
     "U+16A0", "U+16A1", "U+16A2", "U+16A3", "U+16A4", "U+16A5", "U+16A6", "U+16A7", "U+16A8",
     "U+16A9", "U+16AA", "U+16AB", "U+16AC", "U+16AD", "U+16AE", "U+16AF", "U+16B0", "U+16B1",
     "U+16B2", "U+16B3", "U+16B4", "U+16B5", "U+16B6", "U+16B7", "U+16B8", "U+16B9", "U+16BA",
     "U+16BB", "U+16BC", "U+16BD", "U+16BE", "U+16BF", "U+16C0", "U+16C1", "U+16C2", "U+16C3",
     "U+16C4", "U+16C5", "U+16C6", "U+16C7", "U+16C8", "U+16C9", "U+16CA", "U+16CB", "U+16CC",
     "U+16CD", "U+16CE", "U+16CF", "U+16D0", "U+16D1", "U+16D2", "U+16D3", "U+16D4", "U+16D5",
     "U+16D6", "U+16D7", "U+16D8", "U+16D9", "U+16DA", "U+16DB", "U+16DC", "U+16DD", "U+16DE",
     "U+16DF", "U+16E0", "U+16E1", "U+16E2", "U+16E3", "U+16E4", "U+16E5", "U+16E6", "U+16E7",
     "U+16E8", "U+16E9", "U+16EA", "U+16EE", "U+16EF", "U+16F0", "U+16F1", "U+16F2", "U+16F3",
     "U+16F4", "U+16F5", "U+16F6", "U+16F7", "U+16F8", "U+1700", "U+1701", "U+1702", "U+1703",
     "U+1704", "U+1705", "U+1706", "U+1707", "U+1708", "U+1709", "U+170A", "U+170B", "U+170C",
     "U+170D", "U+170E", "U+170F", "U+1710", "U+1711", "U+171F", "U+1720", "U+1721", "U+1722",
     "U+1723", "U+1724", "U+1725", "U+1726", "U+1727", "U+1728", "U+1729", "U+172A", "U+172B",
     "U+172C", "U+172D", "U+172E", "U+172F", "U+1730", "U+1731", "U+1740", "U+1741", "U+1742",
     "U+1743", "U+1744", "U+1745", "U+1746", "U+1747", "U+1748", "U+1749", "U+174A", "U+174B",
     "U+174C", "U+174D", "U+174E", "U+174F", "U+1750", "U+1751", "U+1760", "U+1761", "U+1762",
     "U+1763", "U+1764", "U+1765", "U+1766", "U+1767", "U+1768", "U+1769", "U+176A", "U+176B",
     "U+176C", "U+176E", "U+176F", "U+1770", "U+1780", "U+1781", "U+1782", "U+1783", "U+1784",
     "U+1785", "U+1786", "U+1787", "U+1788", "U+1789", "U+178A", "U+178B", "U+178C", "U+178D",
     "U+178E", "U+178F", "U+1790", "U+1791", "U+1792", "U+1793", "U+1794", "U+1795", "U+1796",
     "U+1797", "U+1798", "U+1799", "U+179A", "U+179B", "U+179C", "U+179D", "U+179E", "U+179F",
     "U+17A0", "U+17A1", "U+17A2", "U+17A3", "U+17A4", "U+17A5", "U+17A6", "U+17A7", "U+17A8",
     "U+17A9", "U+17AA", "U+17AB", "U+17AC", "U+17AD", "U+17AE", "U+17AF", "U+17B0", "U+17B1",
     "U+17B2", "U+17B3", "U+17D7", "U+17DC", "U+17E0", "U+17E1", "U+17E2", "U+17E3", "U+17E4",
     "U+17E5", "U+17E6", "U+17E7", "U+17E8", "U+17E9", "U+17F0", "U+17F1", "U+17F2", "U+17F3",
     "U+17F4", "U+17F5", "U+17F6", "U+17F7", "U+17F8", "U+17F9", "U+1810", "U+1811", "U+1812",
     "U+1813", "U+1814", "U+1815", "U+1816", "U+1817", "U+1818", "U+1819", "U+1820", "U+1821",
     "U+1822", "U+1823", "U+1824", "U+1825", "U+1826", "U+1827", "U+1828", "U+1829", "U+182A",
     "U+182B", "U+182C", "U+182D", "U+182E", "U+182F", "U+1830", "U+1831", "U+1832", "U+1833",
     "U+1834", "U+1835", "U+1836", "U+1837", "U+1838", "U+1839", "U+183A", "U+183B", "U+183C",
     "U+183D", "U+183E", "U+183F", "U+1840", "U+1841", "U+1842", "U+1843", "U+1844", "U+1845",
     "U+1846", "U+1847", "U+1848", "U+1849", "U+184A", "U+184B", "U+184C", "U+184D", "U+184E",
     "U+184F", "U+1850", "U+1851", "U+1852", "U+1853", "U+1854", "U+1855", "U+1856", "U+1857",
     "U+1858", "U+1859", "U+185A", "U+185B", "U+185C", "U+185D", "U+185E", "U+185F", "U+1860",
     "U+1861", "U+1862", "U+1863", "U+1864", "U+1865", "U+1866", "U+1867", "U+1868", "U+1869",
     "U+186A", "U+186B", "U+186C", "U+186D", "U+186E", "U+186F", "U+1870", "U+1871", "U+1872",
     "U+1873", "U+1874", "U+1875", "U+1876", "U+1877", "U+1878", "U+1880", "U+1881", "U+1882",
     "U+1883", "U+1884", "U+1887", "U+1888", "U+1889", "U+188A", "U+188B", "U+188C", "U+188D",
     "U+188E", "U+188F", "U+1890", "U+1891", "U+1892", "U+1893", "U+1894", "U+1895", "U+1896",
     "U+1897", "U+1898", "U+1899", "U+189A", "U+189B", "U+189C", "U+189D", "U+189E", "U+189F",
     "U+18A0", "U+18A1", "U+18A2", "U+18A3", "U+18A4", "U+18A5", "U+18A6", "U+18A7", "U+18A8",
     "U+18AA", "U+18B0", "U+18B1", "U+18B2", "U+18B3", "U+18B4", "U+18B5", "U+18B6", "U+18B7",
     "U+18B8", "U+18B9", "U+18BA", "U+18BB", "U+18BC", "U+18BD", "U+18BE", "U+18BF", "U+18C0",
     "U+18C1", "U+18C2", "U+18C3", "U+18C4", "U+18C5", "U+18C6", "U+18C7", "U+18C8", "U+18C9",
     "U+18CA", "U+18CB", "U+18CC", "U+18CD", "U+18CE", "U+18CF", "U+18D0", "U+18D1", "U+18D2",
     "U+18D3", "U+18D4", "U+18D5", "U+18D6", "U+18D7", "U+18D8", "U+18D9", "U+18DA", "U+18DB",
     "U+18DC", "U+18DD", "U+18DE", "U+18DF", "U+18E0", "U+18E1", "U+18E2", "U+18E3", "U+18E4",
     "U+18E5", "U+18E6", "U+18E7", "U+18E8", "U+18E9", "U+18EA", "U+18EB", "U+18EC", "U+18ED",
     "U+18EE", "U+18EF", "U+18F0", "U+18F1", "U+18F2", "U+18F3", "U+18F4", "U+18F5", "U+1900",
     "U+1901", "U+1902", "U+1903", "U+1904", "U+1905", "U+1906", "U+1907", "U+1908", "U+1909",
     "U+190A", "U+190B", "U+190C", "U+190D", "U+190E", "U+190F", "U+1910", "U+1911", "U+1912",
     "U+1913", "U+1914", "U+1915", "U+1916", "U+1917", "U+1918", "U+1919", "U+191A", "U+191B",
     "U+191C", "U+191D", "U+191E", "U+1946", "U+1947", "U+1948", "U+1949", "U+194A", "U+194B",
     "U+194C", "U+194D", "U+194E", "U+194F", "U+1950", "U+1951", "U+1952", "U+1953", "U+1954",
     "U+1955", "U+1956", "U+1957", "U+1958", "U+1959", "U+195A", "U+195B", "U+195C", "U+195D",
     "U+195E", "U+195F", "U+1960", "U+1961", "U+1962", "U+1963", "U+1964", "U+1965", "U+1966",
     "U+1967", "U+1968", "U+1969", "U+196A", "U+196B", "U+196C", "U+196D", "U+1970", "U+1971",
     "U+1972", "U+1973", "U+1974", "U+1980", "U+1981", "U+1982", "U+1983", "U+1984", "U+1985",
     "U+1986", "U+1987", "U+1988", "U+1989", "U+198A", "U+198B", "U+198C", "U+198D", "U+198E",
     "U+198F", "U+1990", "U+1991", "U+1992", "U+1993", "U+1994", "U+1995", "U+1996", "U+1997",
     "U+1998", "U+1999", "U+199A", "U+199B", "U+199C", "U+199D", "U+199E", "U+199F", "U+19A0",
     "U+19A1", "U+19A2", "U+19A3", "U+19A4", "U+19A5", "U+19A6", "U+19A7", "U+19A8", "U+19A9",
     "U+19AA", "U+19AB", "U+19B0", "U+19B1", "U+19B2", "U+19B3", "U+19B4", "U+19B5", "U+19B6",
     "U+19B7", "U+19B8", "U+19B9", "U+19BA", "U+19BB", "U+19BC", "U+19BD", "U+19BE", "U+19BF",
     "U+19C0", "U+19C1", "U+19C2", "U+19C3", "U+19C4", "U+19C5", "U+19C6", "U+19C7", "U+19C8",
     "U+19C9", "U+19D0", "U+19D1", "U+19D2", "U+19D3", "U+19D4", "U+19D5", "U+19D6", "U+19D7",
     "U+19D8", "U+19D9", "U+19DA", "U+1A00", "U+1A01", "U+1A02", "U+1A03", "U+1A04", "U+1A05",
     "U+1A06", "U+1A07", "U+1A08", "U+1A09", "U+1A0A", "U+1A0B", "U+1A0C", "U+1A0D", "U+1A0E",
     "U+1A0F", "U+1A10", "U+1A11", "U+1A12", "U+1A13", "U+1A14", "U+1A15", "U+1A16", "U+1A20",
     "U+1A21", "U+1A22", "U+1A23", "U+1A24", "U+1A25", "U+1A26", "U+1A27", "U+1A28", "U+1A29",
     "U+1A2A", "U+1A2B", "U+1A2C", "U+1A2D", "U+1A2E", "U+1A2F", "U+1A30", "U+1A31", "U+1A32",
     "U+1A33", "U+1A34", "U+1A35", "U+1A36", "U+1A37", "U+1A38", "U+1A39", "U+1A3A", "U+1A3B",
     "U+1A3C", "U+1A3D", "U+1A3E", "U+1A3F", "U+1A40", "U+1A41", "U+1A42", "U+1A43", "U+1A44",
     "U+1A45", "U+1A46", "U+1A47", "U+1A48", "U+1A49", "U+1A4A", "U+1A4B", "U+1A4C", "U+1A4D",
     "U+1A4E", "U+1A4F", "U+1A50", "U+1A51", "U+1A52", "U+1A53", "U+1A54", "U+1A80", "U+1A81",
     "U+1A82", "U+1A83", "U+1A84", "U+1A85", "U+1A86", "U+1A87", "U+1A88", "U+1A89", "U+1A90",
     "U+1A91", "U+1A92", "U+1A93", "U+1A94", "U+1A95", "U+1A96", "U+1A97", "U+1A98", "U+1A99",
     "U+1AA7", "U+1B05", "U+1B06", "U+1B07", "U+1B08", "U+1B09", "U+1B0A", "U+1B0B", "U+1B0C",
     "U+1B0D", "U+1B0E", "U+1B0F", "U+1B10", "U+1B11", "U+1B12", "U+1B13", "U+1B14", "U+1B15",
     "U+1B16", "U+1B17", "U+1B18", "U+1B19", "U+1B1A", "U+1B1B", "U+1B1C", "U+1B1D", "U+1B1E",
     "U+1B1F", "U+1B20", "U+1B21", "U+1B22", "U+1B23", "U+1B24", "U+1B25", "U+1B26", "U+1B27",
     "U+1B28", "U+1B29", "U+1B2A", "U+1B2B", "U+1B2C", "U+1B2D", "U+1B2E", "U+1B2F", "U+1B30",
     "U+1B31", "U+1B32", "U+1B33", "U+1B45", "U+1B46", "U+1B47", "U+1B48", "U+1B49", "U+1B4A",
     "U+1B4B", "U+1B4C", "U+1B50", "U+1B51", "U+1B52", "U+1B53", "U+1B54", "U+1B55", "U+1B56",
     "U+1B57", "U+1B58", "U+1B59", "U+1B83", "U+1B84", "U+1B85", "U+1B86", "U+1B87", "U+1B88",
     "U+1B89", "U+1B8A", "U+1B8B", "U+1B8C", "U+1B8D", "U+1B8E", "U+1B8F", "U+1B90", "U+1B91",
     "U+1B92", "U+1B93", "U+1B94", "U+1B95", "U+1B96", "U+1B97", "U+1B98", "U+1B99", "U+1B9A",
     "U+1B9B", "U+1B9C", "U+1B9D", "U+1B9E", "U+1B9F", "U+1BA0", "U+1BAE", "U+1BAF", "U+1BB0",
     "U+1BB1", "U+1BB2", "U+1BB3", "U+1BB4", "U+1BB5", "U+1BB6", "U+1BB7", "U+1BB8", "U+1BB9",
     "U+1BBA", "U+1BBB", "U+1BBC", "U+1BBD", "U+1BBE", "U+1BBF", "U+1BC0", "U+1BC1", "U+1BC2",
     "U+1BC3", "U+1BC4", "U+1BC5", "U+1BC6", "U+1BC7", "U+1BC8", "U+1BC9", "U+1BCA", "U+1BCB",
     "U+1BCC", "U+1BCD", "U+1BCE", "U+1BCF", "U+1BD0", "U+1BD1", "U+1BD2", "U+1BD3", "U+1BD4",
     "U+1BD5", "U+1BD6", "U+1BD7", "U+1BD8", "U+1BD9", "U+1BDA", "U+1BDB", "U+1BDC", "U+1BDD",
     "U+1BDE", "U+1BDF", "U+1BE0", "U+1BE1", "U+1BE2", "U+1BE3", "U+1BE4", "U+1BE5", "U+1C00",
     "U+1C01", "U+1C02", "U+1C03", "U+1C04", "U+1C05", "U+1C06", "U+1C07", "U+1C08", "U+1C09",
     "U+1C0A", "U+1C0B", "U+1C0C", "U+1C0D", "U+1C0E", "U+1C0F", "U+1C10", "U+1C11", "U+1C12",
     "U+1C13", "U+1C14", "U+1C15", "U+1C16", "U+1C17", "U+1C18", "U+1C19", "U+1C1A", "U+1C1B",
     "U+1C1C", "U+1C1D", "U+1C1E", "U+1C1F", "U+1C20", "U+1C21", "U+1C22", "U+1C23", "U+1C40",
     "U+1C41", "U+1C42", "U+1C43", "U+1C44", "U+1C45", "U+1C46", "U+1C47", "U+1C48", "U+1C49",
     "U+1C4D", "U+1C4E", "U+1C4F", "U+1C50", "U+1C51", "U+1C52", "U+1C53", "U+1C54", "U+1C55",
     "U+1C56", "U+1C57", "U+1C58", "U+1C59", "U+1C5A", "U+1C5B", "U+1C5C", "U+1C5D", "U+1C5E",
     "U+1C5F", "U+1C60", "U+1C61", "U+1C62", "U+1C63", "U+1C64", "U+1C65", "U+1C66", "U+1C67",
     "U+1C68", "U+1C69", "U+1C6A", "U+1C6B", "U+1C6C", "U+1C6D", "U+1C6E", "U+1C6F", "U+1C70",
     "U+1C71", "U+1C72", "U+1C73", "U+1C74", "U+1C75", "U+1C76", "U+1C77", "U+1C78", "U+1C79",
     "U+1C7A", "U+1C7B", "U+1C7C", "U+1C7D", "U+1C80", "U+1C81", "U+1C82", "U+1C83", "U+1C84",
     "U+1C85", "U+1C86", "U+1C87", "U+1C88", "U+1C90", "U+1C91", "U+1C92", "U+1C93", "U+1C94",
     "U+1C95", "U+1C96", "U+1C97", "U+1C98", "U+1C99", "U+1C9A", "U+1C9B", "U+1C9C", "U+1C9D",
     "U+1C9E", "U+1C9F", "U+1CA0", "U+1CA1", "U+1CA2", "U+1CA3", "U+1CA4", "U+1CA5", "U+1CA6",
     "U+1CA7", "U+1CA8", "U+1CA9", "U+1CAA", "U+1CAB", "U+1CAC", "U+1CAD", "U+1CAE", "U+1CAF",
     "U+1CB0", "U+1CB1", "U+1CB2", "U+1CB3", "U+1CB4", "U+1CB5", "U+1CB6", "U+1CB7", "U+1CB8",
     "U+1CB9", "U+1CBA", "U+1CBD", "U+1CBE", "U+1CBF", "U+1CE9", "U+1CEA", "U+1CEB", "U+1CEC",
     "U+1CEE", "U+1CEF", "U+1CF0", "U+1CF1", "U+1CF2", "U+1CF3", "U+1CF5", "U+1CF6", "U+1CFA",
     "U+1D00", "U+1D01", "U+1D02", "U+1D03", "U+1D04", "U+1D05", "U+1D06", "U+1D07", "U+1D08",
     "U+1D09", "U+1D0A", "U+1D0B", "U+1D0C", "U+1D0D", "U+1D0E", "U+1D0F", "U+1D10", "U+1D11",
     "U+1D12", "U+1D13", "U+1D14", "U+1D15", "U+1D16", "U+1D17", "U+1D18", "U+1D19", "U+1D1A",
     "U+1D1B", "U+1D1C", "U+1D1D", "U+1D1E", "U+1D1F", "U+1D20", "U+1D21", "U+1D22", "U+1D23",
     "U+1D24", "U+1D25", "U+1D26", "U+1D27", "U+1D28", "U+1D29", "U+1D2A", "U+1D2B", "U+1D2C",
     "U+1D2D", "U+1D2E", "U+1D2F", "U+1D30", "U+1D31", "U+1D32", "U+1D33", "U+1D34", "U+1D35",
     "U+1D36", "U+1D37", "U+1D38", "U+1D39", "U+1D3A", "U+1D3B", "U+1D3C", "U+1D3D", "U+1D3E",
     "U+1D3F", "U+1D40", "U+1D41", "U+1D42", "U+1D43", "U+1D44", "U+1D45", "U+1D46", "U+1D47",
     "U+1D48", "U+1D49", "U+1D4A", "U+1D4B", "U+1D4C", "U+1D4D", "U+1D4E", "U+1D4F", "U+1D50",
     "U+1D51", "U+1D52", "U+1D53", "U+1D54", "U+1D55", "U+1D56", "U+1D57", "U+1D58", "U+1D59",
     "U+1D5A", "U+1D5B", "U+1D5C", "U+1D5D", "U+1D5E", "U+1D5F", "U+1D60", "U+1D61", "U+1D62",
     "U+1D63", "U+1D64", "U+1D65", "U+1D66", "U+1D67", "U+1D68", "U+1D69", "U+1D6A", "U+1D6B",
     "U+1D6C", "U+1D6D", "U+1D6E", "U+1D6F", "U+1D70", "U+1D71", "U+1D72", "U+1D73", "U+1D74",
     "U+1D75", "U+1D76", "U+1D77", "U+1D78", "U+1D79", "U+1D7A", "U+1D7B", "U+1D7C", "U+1D7D",
     "U+1D7E", "U+1D7F", "U+1D80", "U+1D81", "U+1D82", "U+1D83", "U+1D84", "U+1D85", "U+1D86",
     "U+1D87", "U+1D88", "U+1D89", "U+1D8A", "U+1D8B", "U+1D8C", "U+1D8D", "U+1D8E", "U+1D8F",
     "U+1D90", "U+1D91", "U+1D92", "U+1D93", "U+1D94", "U+1D95", "U+1D96", "U+1D97", "U+1D98",
     "U+1D99", "U+1D9A", "U+1D9B", "U+1D9C", "U+1D9D", "U+1D9E", "U+1D9F", "U+1DA0", "U+1DA1",
     "U+1DA2", "U+1DA3", "U+1DA4", "U+1DA5", "U+1DA6", "U+1DA7", "U+1DA8", "U+1DA9", "U+1DAA",
     "U+1DAB", "U+1DAC", "U+1DAD", "U+1DAE", "U+1DAF", "U+1DB0", "U+1DB1", "U+1DB2", "U+1DB3",
     "U+1DB4", "U+1DB5", "U+1DB6", "U+1DB7", "U+1DB8", "U+1DB9", "U+1DBA", "U+1DBB", "U+1DBC",
     "U+1DBD", "U+1DBE", "U+1DBF", "U+1E00", "U+1E01", "U+1E02", "U+1E03", "U+1E04", "U+1E05",
     "U+1E06", "U+1E07", "U+1E08", "U+1E09", "U+1E0A", "U+1E0B", "U+1E0C", "U+1E0D", "U+1E0E",
     "U+1E0F", "U+1E10", "U+1E11", "U+1E12", "U+1E13", "U+1E14", "U+1E15", "U+1E16", "U+1E17",
     "U+1E18", "U+1E19", "U+1E1A", "U+1E1B", "U+1E1C", "U+1E1D", "U+1E1E", "U+1E1F", "U+1E20",
     "U+1E21", "U+1E22", "U+1E23", "U+1E24", "U+1E25", "U+1E26", "U+1E27", "U+1E28", "U+1E29",
     "U+1E2A", "U+1E2B", "U+1E2C", "U+1E2D", "U+1E2E", "U+1E2F", "U+1E30", "U+1E31", "U+1E32",
     "U+1E33", "U+1E34", "U+1E35", "U+1E36", "U+1E37", "U+1E38", "U+1E39", "U+1E3A", "U+1E3B",
     "U+1E3C", "U+1E3D", "U+1E3E", "U+1E3F", "U+1E40", "U+1E41", "U+1E42", "U+1E43", "U+1E44",
     "U+1E45", "U+1E46", "U+1E47", "U+1E48", "U+1E49", "U+1E4A", "U+1E4B", "U+1E4C", "U+1E4D",
     "U+1E4E", "U+1E4F", "U+1E50", "U+1E51", "U+1E52", "U+1E53", "U+1E54", "U+1E55", "U+1E56",
     "U+1E57", "U+1E58", "U+1E59", "U+1E5A", "U+1E5B", "U+1E5C", "U+1E5D", "U+1E5E", "U+1E5F",
     "U+1E60", "U+1E61", "U+1E62", "U+1E63", "U+1E64", "U+1E65", "U+1E66", "U+1E67", "U+1E68",
     "U+1E69", "U+1E6A", "U+1E6B", "U+1E6C", "U+1E6D", "U+1E6E", "U+1E6F", "U+1E70", "U+1E71",
     "U+1E72", "U+1E73", "U+1E74", "U+1E75", "U+1E76", "U+1E77", "U+1E78", "U+1E79", "U+1E7A",
     "U+1E7B", "U+1E7C", "U+1E7D", "U+1E7E", "U+1E7F", "U+1E80", "U+1E81", "U+1E82", "U+1E83",
     "U+1E84", "U+1E85", "U+1E86", "U+1E87", "U+1E88", "U+1E89", "U+1E8A", "U+1E8B", "U+1E8C",
     "U+1E8D", "U+1E8E", "U+1E8F", "U+1E90", "U+1E91", "U+1E92", "U+1E93", "U+1E94", "U+1E95",
     "U+1E96", "U+1E97", "U+1E98", "U+1E99", "U+1E9A", "U+1E9B", "U+1E9C", "U+1E9D", "U+1E9E",
     "U+1E9F", "U+1EA0", "U+1EA1", "U+1EA2", "U+1EA3", "U+1EA4", "U+1EA5", "U+1EA6", "U+1EA7",
     "U+1EA8", "U+1EA9", "U+1EAA", "U+1EAB", "U+1EAC", "U+1EAD", "U+1EAE", "U+1EAF", "U+1EB0",
     "U+1EB1", "U+1EB2", "U+1EB3", "U+1EB4", "U+1EB5", "U+1EB6", "U+1EB7", "U+1EB8", "U+1EB9",
     "U+1EBA", "U+1EBB", "U+1EBC", "U+1EBD", "U+1EBE", "U+1EBF", "U+1EC0", "U+1EC1", "U+1EC2",
     "U+1EC3", "U+1EC4", "U+1EC5", "U+1EC6", "U+1EC7", "U+1EC8", "U+1EC9", "U+1ECA", "U+1ECB",
     "U+1ECC", "U+1ECD", "U+1ECE", "U+1ECF", "U+1ED0", "U+1ED1", "U+1ED2", "U+1ED3", "U+1ED4",
     "U+1ED5", "U+1ED6", "U+1ED7", "U+1ED8", "U+1ED9", "U+1EDA", "U+1EDB", "U+1EDC", "U+1EDD",
     "U+1EDE", "U+1EDF", "U+1EE0", "U+1EE1", "U+1EE2", "U+1EE3", "U+1EE4", "U+1EE5", "U+1EE6",
     "U+1EE7", "U+1EE8", "U+1EE9", "U+1EEA", "U+1EEB", "U+1EEC", "U+1EED", "U+1EEE", "U+1EEF",
     "U+1EF0", "U+1EF1", "U+1EF2", "U+1EF3", "U+1EF4", "U+1EF5", "U+1EF6", "U+1EF7", "U+1EF8",
     "U+1EF9", "U+1EFA", "U+1EFB", "U+1EFC", "U+1EFD", "U+1EFE", "U+1EFF", "U+1F00", "U+1F01",
     "U+1F02", "U+1F03", "U+1F04", "U+1F05", "U+1F06", "U+1F07", "U+1F08", "U+1F09", "U+1F0A",
     "U+1F0B", "U+1F0C", "U+1F0D", "U+1F0E", "U+1F0F", "U+1F10", "U+1F11", "U+1F12", "U+1F13",
     "U+1F14", "U+1F15", "U+1F18", "U+1F19", "U+1F1A", "U+1F1B", "U+1F1C", "U+1F1D", "U+1F20",
     "U+1F21", "U+1F22", "U+1F23", "U+1F24", "U+1F25", "U+1F26", "U+1F27", "U+1F28", "U+1F29",
     "U+1F2A", "U+1F2B", "U+1F2C", "U+1F2D", "U+1F2E", "U+1F2F", "U+1F30", "U+1F31", "U+1F32",
     "U+1F33", "U+1F34", "U+1F35", "U+1F36", "U+1F37", "U+1F38", "U+1F39", "U+1F3A", "U+1F3B",
     "U+1F3C", "U+1F3D", "U+1F3E", "U+1F3F", "U+1F40", "U+1F41", "U+1F42", "U+1F43", "U+1F44",
     "U+1F45", "U+1F48", "U+1F49", "U+1F4A", "U+1F4B", "U+1F4C", "U+1F4D", "U+1F50", "U+1F51",
     "U+1F52", "U+1F53", "U+1F54", "U+1F55", "U+1F56", "U+1F57", "U+1F59", "U+1F5B", "U+1F5D",
     "U+1F5F", "U+1F60", "U+1F61", "U+1F62", "U+1F63", "U+1F64", "U+1F65", "U+1F66", "U+1F67",
     "U+1F68", "U+1F69", "U+1F6A", "U+1F6B", "U+1F6C", "U+1F6D", "U+1F6E", "U+1F6F", "U+1F70",
     "U+1F71", "U+1F72", "U+1F73", "U+1F74", "U+1F75", "U+1F76", "U+1F77", "U+1F78", "U+1F79",
     "U+1F7A", "U+1F7B", "U+1F7C", "U+1F7D", "U+1F80", "U+1F81", "U+1F82", "U+1F83", "U+1F84",
     "U+1F85", "U+1F86", "U+1F87", "U+1F88", "U+1F89", "U+1F8A", "U+1F8B", "U+1F8C", "U+1F8D",
     "U+1F8E", "U+1F8F", "U+1F90", "U+1F91", "U+1F92", "U+1F93", "U+1F94", "U+1F95", "U+1F96",
     "U+1F97", "U+1F98", "U+1F99", "U+1F9A", "U+1F9B", "U+1F9C", "U+1F9D", "U+1F9E", "U+1F9F",
     "U+1FA0", "U+1FA1", "U+1FA2", "U+1FA3", "U+1FA4", "U+1FA5", "U+1FA6", "U+1FA7", "U+1FA8",
     "U+1FA9", "U+1FAA", "U+1FAB", "U+1FAC", "U+1FAD", "U+1FAE", "U+1FAF", "U+1FB0", "U+1FB1",
     "U+1FB2", "U+1FB3", "U+1FB4", "U+1FB6", "U+1FB7", "U+1FB8", "U+1FB9", "U+1FBA", "U+1FBB",
     "U+1FBC", "U+1FBE", "U+1FC2", "U+1FC3", "U+1FC4", "U+1FC6", "U+1FC7", "U+1FC8", "U+1FC9",
     "U+1FCA", "U+1FCB", "U+1FCC", "U+1FD0", "U+1FD1", "U+1FD2", "U+1FD3", "U+1FD6", "U+1FD7",
     "U+1FD8", "U+1FD9", "U+1FDA", "U+1FDB", "U+1FE0", "U+1FE1", "U+1FE2", "U+1FE3", "U+1FE4",
     "U+1FE5", "U+1FE6", "U+1FE7", "U+1FE8", "U+1FE9", "U+1FEA", "U+1FEB", "U+1FEC", "U+1FF2",
     "U+1FF3", "U+1FF4", "U+1FF6", "U+1FF7", "U+1FF8", "U+1FF9", "U+1FFA", "U+1FFB", "U+1FFC",
     "U+2070", "U+2071", "U+2074", "U+2075", "U+2076", "U+2077", "U+2078", "U+2079", "U+207F",
     "U+2080", "U+2081", "U+2082", "U+2083", "U+2084", "U+2085", "U+2086", "U+2087", "U+2088",
     "U+2089", "U+2090", "U+2091", "U+2092", "U+2093", "U+2094", "U+2095", "U+2096", "U+2097",
     "U+2098", "U+2099", "U+209A", "U+209B", "U+209C", "U+2102", "U+2107", "U+210A", "U+210B",
     "U+210C", "U+210D", "U+210E", "U+210F", "U+2110", "U+2111", "U+2112", "U+2113", "U+2115",
     "U+2119", "U+211A", "U+211B", "U+211C", "U+211D", "U+2124", "U+2126", "U+2128", "U+212A",
     "U+212B", "U+212C", "U+212D", "U+212F", "U+2130", "U+2131", "U+2132", "U+2133", "U+2134",
     "U+2135", "U+2136", "U+2137", "U+2138", "U+2139", "U+213C", "U+213D", "U+213E", "U+213F",
     "U+2145", "U+2146", "U+2147", "U+2148", "U+2149", "U+214E", "U+2150", "U+2151", "U+2152",
     "U+2153", "U+2154", "U+2155", "U+2156", "U+2157", "U+2158", "U+2159", "U+215A", "U+215B",
     "U+215C", "U+215D", "U+215E", "U+215F", "U+2160", "U+2161", "U+2162", "U+2163", "U+2164",
     "U+2165", "U+2166", "U+2167", "U+2168", "U+2169", "U+216A", "U+216B", "U+216C", "U+216D",
     "U+216E", "U+216F", "U+2170", "U+2171", "U+2172", "U+2173", "U+2174", "U+2175", "U+2176",
     "U+2177", "U+2178", "U+2179", "U+217A", "U+217B", "U+217C", "U+217D", "U+217E", "U+217F",
     "U+2180", "U+2181", "U+2182", "U+2183", "U+2184", "U+2185", "U+2186", "U+2187", "U+2188",
     "U+2189", "U+2460", "U+2461", "U+2462", "U+2463", "U+2464", "U+2465", "U+2466", "U+2467",
     "U+2468", "U+2469", "U+246A", "U+246B", "U+246C", "U+246D", "U+246E", "U+246F", "U+2470",
     "U+2471", "U+2472", "U+2473", "U+2474", "U+2475", "U+2476", "U+2477", "U+2478", "U+2479",
     "U+247A", "U+247B", "U+247C", "U+247D", "U+247E", "U+247F", "U+2480", "U+2481", "U+2482",
     "U+2483", "U+2484", "U+2485", "U+2486", "U+2487", "U+2488", "U+2489", "U+248A", "U+248B",
     "U+248C", "U+248D", "U+248E", "U+248F", "U+2490", "U+2491", "U+2492", "U+2493", "U+2494",
     "U+2495", "U+2496", "U+2497", "U+2498", "U+2499", "U+249A", "U+249B", "U+24EA", "U+24EB",
     "U+24EC", "U+24ED", "U+24EE", "U+24EF", "U+24F0", "U+24F1", "U+24F2", "U+24F3", "U+24F4",
     "U+24F5", "U+24F6", "U+24F7", "U+24F8", "U+24F9", "U+24FA", "U+24FB", "U+24FC", "U+24FD",
     "U+24FE", "U+24FF", "U+2776", "U+2777", "U+2778", "U+2779", "U+277A", "U+277B", "U+277C",
     "U+277D", "U+277E", "U+277F", "U+2780", "U+2781", "U+2782", "U+2783", "U+2784", "U+2785",
     "U+2786", "U+2787", "U+2788", "U+2789", "U+278A", "U+278B", "U+278C", "U+278D", "U+278E",
     "U+278F", "U+2790", "U+2791", "U+2792", "U+2793", "U+2C00", "U+2C01", "U+2C02", "U+2C03",
     "U+2C04", "U+2C05", "U+2C06", "U+2C07", "U+2C08", "U+2C09", "U+2C0A", "U+2C0B", "U+2C0C",
     "U+2C0D", "U+2C0E", "U+2C0F", "U+2C10", "U+2C11", "U+2C12", "U+2C13", "U+2C14", "U+2C15",
     "U+2C16", "U+2C17", "U+2C18", "U+2C19", "U+2C1A", "U+2C1B", "U+2C1C", "U+2C1D", "U+2C1E",
     "U+2C1F", "U+2C20", "U+2C21", "U+2C22", "U+2C23", "U+2C24", "U+2C25", "U+2C26", "U+2C27",
     "U+2C28", "U+2C29", "U+2C2A", "U+2C2B", "U+2C2C", "U+2C2D", "U+2C2E", "U+2C2F", "U+2C30",
     "U+2C31", "U+2C32", "U+2C33", "U+2C34", "U+2C35", "U+2C36", "U+2C37", "U+2C38", "U+2C39",
     "U+2C3A", "U+2C3B", "U+2C3C", "U+2C3D", "U+2C3E", "U+2C3F", "U+2C40", "U+2C41", "U+2C42",
     "U+2C43", "U+2C44", "U+2C45", "U+2C46", "U+2C47", "U+2C48", "U+2C49", "U+2C4A", "U+2C4B",
     "U+2C4C", "U+2C4D", "U+2C4E", "U+2C4F", "U+2C50", "U+2C51", "U+2C52", "U+2C53", "U+2C54",
     "U+2C55", "U+2C56", "U+2C57", "U+2C58", "U+2C59", "U+2C5A", "U+2C5B", "U+2C5C", "U+2C5D",
     "U+2C5E", "U+2C5F", "U+2C60", "U+2C61", "U+2C62", "U+2C63", "U+2C64", "U+2C65", "U+2C66",
     "U+2C67", "U+2C68", "U+2C69", "U+2C6A", "U+2C6B", "U+2C6C", "U+2C6D", "U+2C6E", "U+2C6F",
     "U+2C70", "U+2C71", "U+2C72", "U+2C73", "U+2C74", "U+2C75", "U+2C76", "U+2C77", "U+2C78",
     "U+2C79", "U+2C7A", "U+2C7B", "U+2C7C", "U+2C7D", "U+2C7E", "U+2C7F", "U+2C80", "U+2C81",
     "U+2C82", "U+2C83", "U+2C84", "U+2C85", "U+2C86", "U+2C87", "U+2C88", "U+2C89", "U+2C8A",
     "U+2C8B", "U+2C8C", "U+2C8D", "U+2C8E", "U+2C8F", "U+2C90", "U+2C91", "U+2C92", "U+2C93",
     "U+2C94", "U+2C95", "U+2C96", "U+2C97", "U+2C98", "U+2C99", "U+2C9A", "U+2C9B", "U+2C9C",
     "U+2C9D", "U+2C9E", "U+2C9F", "U+2CA0", "U+2CA1", "U+2CA2", "U+2CA3", "U+2CA4", "U+2CA5",
     "U+2CA6", "U+2CA7", "U+2CA8", "U+2CA9", "U+2CAA", "U+2CAB", "U+2CAC", "U+2CAD", "U+2CAE",
     "U+2CAF", "U+2CB0", "U+2CB1", "U+2CB2", "U+2CB3", "U+2CB4", "U+2CB5", "U+2CB6", "U+2CB7",
     "U+2CB8", "U+2CB9", "U+2CBA", "U+2CBB", "U+2CBC", "U+2CBD", "U+2CBE", "U+2CBF", "U+2CC0",
     "U+2CC1", "U+2CC2", "U+2CC3", "U+2CC4", "U+2CC5", "U+2CC6", "U+2CC7", "U+2CC8", "U+2CC9",
     "U+2CCA", "U+2CCB", "U+2CCC", "U+2CCD", "U+2CCE", "U+2CCF", "U+2CD0", "U+2CD1", "U+2CD2",
     "U+2CD3", "U+2CD4", "U+2CD5", "U+2CD6", "U+2CD7", "U+2CD8", "U+2CD9", "U+2CDA", "U+2CDB",
     "U+2CDC", "U+2CDD", "U+2CDE", "U+2CDF", "U+2CE0", "U+2CE1", "U+2CE2", "U+2CE3", "U+2CE4",
     "U+2CEB", "U+2CEC", "U+2CED", "U+2CEE", "U+2CF2", "U+2CF3", "U+2CFD", "U+2D00", "U+2D01",
     "U+2D02", "U+2D03", "U+2D04", "U+2D05", "U+2D06", "U+2D07", "U+2D08", "U+2D09", "U+2D0A",
     "U+2D0B", "U+2D0C", "U+2D0D", "U+2D0E", "U+2D0F", "U+2D10", "U+2D11", "U+2D12", "U+2D13",
     "U+2D14", "U+2D15", "U+2D16", "U+2D17", "U+2D18", "U+2D19", "U+2D1A", "U+2D1B", "U+2D1C",
     "U+2D1D", "U+2D1E", "U+2D1F", "U+2D20", "U+2D21", "U+2D22", "U+2D23", "U+2D24", "U+2D25",
     "U+2D27", "U+2D2D", "U+2D30", "U+2D31", "U+2D32", "U+2D33", "U+2D34", "U+2D35", "U+2D36",
     "U+2D37", "U+2D38", "U+2D39", "U+2D3A", "U+2D3B", "U+2D3C", "U+2D3D", "U+2D3E", "U+2D3F",
     "U+2D40", "U+2D41", "U+2D42", "U+2D43", "U+2D44", "U+2D45", "U+2D46", "U+2D47", "U+2D48",
     "U+2D49", "U+2D4A", "U+2D4B", "U+2D4C", "U+2D4D", "U+2D4E", "U+2D4F", "U+2D50", "U+2D51",
     "U+2D52", "U+2D53", "U+2D54", "U+2D55", "U+2D56", "U+2D57", "U+2D58", "U+2D59", "U+2D5A",
     "U+2D5B", "U+2D5C", "U+2D5D", "U+2D5E", "U+2D5F", "U+2D60", "U+2D61", "U+2D62", "U+2D63",
     "U+2D64", "U+2D65", "U+2D66", "U+2D67", "U+2D6F", "U+2D80", "U+2D81", "U+2D82", "U+2D83",
     "U+2D84", "U+2D85", "U+2D86", "U+2D87", "U+2D88", "U+2D89", "U+2D8A", "U+2D8B", "U+2D8C",
     "U+2D8D", "U+2D8E", "U+2D8F", "U+2D90", "U+2D91", "U+2D92", "U+2D93", "U+2D94", "U+2D95",
     "U+2D96", "U+2DA0", "U+2DA1", "U+2DA2", "U+2DA3", "U+2DA4", "U+2DA5", "U+2DA6", "U+2DA8",
     "U+2DA9", "U+2DAA", "U+2DAB", "U+2DAC", "U+2DAD", "U+2DAE", "U+2DB0", "U+2DB1", "U+2DB2",
     "U+2DB3", "U+2DB4", "U+2DB5", "U+2DB6", "U+2DB8", "U+2DB9", "U+2DBA", "U+2DBB", "U+2DBC",
     "U+2DBD", "U+2DBE", "U+2DC0", "U+2DC1", "U+2DC2", "U+2DC3", "U+2DC4", "U+2DC5", "U+2DC6",
     "U+2DC8", "U+2DC9", "U+2DCA", "U+2DCB", "U+2DCC", "U+2DCD", "U+2DCE", "U+2DD0", "U+2DD1",
     "U+2DD2", "U+2DD3", "U+2DD4", "U+2DD5", "U+2DD6", "U+2DD8", "U+2DD9", "U+2DDA", "U+2DDB",
     "U+2DDC", "U+2DDD", "U+2DDE", "U+2E2F" }

\* the character class [-._;()/:A-Za-z0-9] of the DOI pattern
DoiTailChars ==
  UpperSet \cup LowerSet \cup AsciiDigits \cup {"-", ".", "_", ";", "(", ")", "/", ":"}

\* the delimiters of re.split(r'[.!?]+', text)
SentenceEnds == {".", "!", "?"}

\* the characters other than A-Z that str.lower() changes, and what it
\* changes each to
OtherUpper ==
  << "U+00C0", "U+00C1", "U+00C2", "U+00C3", "U+00C4", "U+00C5", "U+00C6", "U+00C7", "U+00C8",
     "U+00C9", "U+00CA", "U+00CB", "U+00CC", "U+00CD", "U+00CE", "U+00CF", "U+00D0", "U+00D1",
     "U+00D2", "U+00D3", "U+00D4", "U+00D5", "U+00D6", "U+00D8", "U+00D9", "U+00DA", "U+00DB",
     "U+00DC", "U+00DD", "U+00DE", "U+0100", "U+0102", "U+0104", "U+0106", "U+0108", "U+010A",
     "U+010C", "U+010E", "U+0110", "U+0112", "U+0114", "U+0116", "U+0118", "U+011A", "U+011C",
     "U+011E", "U+0120", "U+0122", "U+0124", "U+0126", "U+0128", "U+012A", "U+012C", "U+012E",
     "U+0132", "U+0134", "U+0136", "U+0139", "U+013B", "U+013D", "U+013F", "U+0141", "U+0143",
     "U+0145", "U+0147", "U+014A", "U+014C", "U+014E", "U+0150", "U+0152", "U+0154", "U+0156",
     "U+0158", "U+015A", "U+015C", "U+015E", "U+0160", "U+0162", "U+0164", "U+0166", "U+0168",
     "U+016A", "U+016C", "U+016E", "U+0170", "U+0172", "U+0174", "U+0176", "U+0178", "U+0179",
     "U+017B", "U+017D", "U+0181", "U+0182", "U+0184", "U+0186", "U+0187", "U+0189", "U+018A",
     "U+018B", "U+018E", "U+018F", "U+0190", "U+0191", "U+0193", "U+0194", "U+0196", "U+0197",
     "U+0198", "U+019C", "U+019D", "U+019F", "U+01A0", "U+01A2", "U+01A4", "U+01A6", "U+01A7",
     "U+01A9", "U+01AC", "U+01AE", "U+01AF", "U+01B1", "U+01B2", "U+01B3", "U+01B5", "U+01B7",
     "U+01B8", "U+01BC", "U+01C4", "U+01C5", "U+01C7", "U+01C8", "U+01CA", "U+01CB", "U+01CD",
     "U+01CF", "U+01D1", "U+01D3", "U+01D5", "U+01D7", "U+01D9", "U+01DB", "U+01DE", "U+01E0",
     "U+01E2", "U+01E4", "U+01E6", "U+01E8", "U+01EA", "U+01EC", "U+01EE", "U+01F1", "U+01F2",
     "U+01F4", "U+01F6", "U+01F7", "U+01F8", "U+01FA", "U+01FC", "U+01FE", "U+0200", "U+0202",
     "U+0204", "U+0206", "U+0208", "U+020A", "U+020C", "U+020E", "U+0210", "U+0212", "U+0214",
     "U+0216", "U+0218", "U+021A", "U+021C", "U+021E", "U+0220", "U+0222", "U+0224", "U+0226",
     "U+0228", "U+022A", "U+022C", "U+022E", "U+0230", "U+0232", "U+023A", "U+023B", "U+023D",
     "U+023E", "U+0241", "U+0243", "U+0244", "U+0245", "U+0246", "U+0248", "U+024A", "U+024C",
     "U+024E", "U+0370", "U+0372", "U+0376", "U+037F", "U+0386", "U+0388", "U+0389", "U+038A",
     "U+038C", "U+038E", "U+038F", "U+0391", "U+0392", "U+0393", "U+0394", "U+0395", "U+0396",
     "U+0397", "U+0398", "U+0399", "U+039A", "U+039B", "U+039C", "U+039D", "U+039E", "U+039F",
     "U+03A0", "U+03A1", "U+03A3", "U+03A4", "U+03A5", "U+03A6", "U+03A7", "U+03A8", "U+03A9",
     "U+03AA", "U+03AB", "U+03CF", "U+03D8", "U+03DA", "U+03DC", "U+03DE", "U+03E0", "U+03E2",
     "U+03E4", "U+03E6", "U+03E8", "U+03EA", "U+03EC", "U+03EE", "U+03F4", "U+03F7", "U+03F9",
     "U+03FA", "U+03FD", "U+03FE", "U+03FF", "U+0400", "U+0401", "U+0402", "U+0403", "U+0404",
     "U+0405", "U+0406", "U+0407", "U+0408", "U+0409", "U+040A", "U+040B", "U+040C", "U+040D",
     "U+040E", "U+040F", "U+0410", "U+0411", "U+0412", "U+0413", "U+0414", "U+0415", "U+0416",
     "U+0417", "U+0418", "U+0419", "U+041A", "U+041B", "U+041C", "U+041D", "U+041E", "U+041F",
     "U+0420", "U+0421", "U+0422", "U+0423", "U+0424", "U+0425", "U+0426", "U+0427", "U+0428",
     "U+0429", "U+042A", "U+042B", "U+042C", "U+042D", "U+042E", "U+042F", "U+0460", "U+0462",
     "U+0464", "U+0466", "U+0468", "U+046A", "U+046C", "U+046E", "U+0470", "U+0472", "U+0474",
     "U+0476", "U+0478", "U+047A", "U+047C", "U+047E", "U+0480", "U+048A", "U+048C", "U+048E",
     "U+0490", "U+0492", "U+0494", "U+0496", "U+0498", "U+049A", "U+049C", "U+049E", "U+04A0",
     "U+04A2", "U+04A4", "U+04A6", "U+04A8", "U+04AA", "U+04AC", "U+04AE", "U+04B0", "U+04B2",
     "U+04B4", "U+04B6", "U+04B8", "U+04BA", "U+04BC", "U+04BE", "U+04C0", "U+04C1", "U+04C3",
     "U+04C5", "U+04C7", "U+04C9", "U+04CB", "U+04CD", "U+04D0", "U+04D2", "U+04D4", "U+04D6",
     "U+04D8", "U+04DA", "U+04DC", "U+04DE", "U+04E0", "U+04E2", "U+04E4", "U+04E6", "U+04E8",
     "U+04EA", "U+04EC", "U+04EE", "U+04F0", "U+04F2", "U+04F4", "U+04F6", "U+04F8", "U+04FA",
     "U+04FC", "U+04FE", "U+0500", "U+0502", "U+0504", "U+0506", "U+0508", "U+050A", "U+050C",
     "U+050E", "U+0510", "U+0512", "U+0514", "U+0516", "U+0518", "U+051A", "U+051C", "U+051E",
     "U+0520", "U+0522", "U+0524", "U+0526", "U+0528", "U+052A", "U+052C", "U+052E", "U+0531",
     "U+0532", "U+0533", "U+0534", "U+0535", "U+0536", "U+0537", "U+0538", "U+0539", "U+053A",
     "U+053B", "U+053C", "U+053D", "U+053E", "U+053F", "U+0540", "U+0541", "U+0542", "U+0543",
     "U+0544", "U+0545", "U+0546", "U+0547", "U+0548", "U+0549", "U+054A", "U+054B", "U+054C",
     "U+054D", "U+054E", "U+054F", "U+0550", "U+0551", "U+0552", "U+0553", "U+0554", "U+0555",
     "U+0556", "U+10A0", "U+10A1", "U+10A2", "U+10A3", "U+10A4", "U+10A5", "U+10A6", "U+10A7",
     "U+10A8", "U+10A9", "U+10AA", "U+10AB", "U+10AC", "U+10AD", "U+10AE", "U+10AF", "U+10B0",
     "U+10B1", "U+10B2", "U+10B3", "U+10B4", "U+10B5", "U+10B6", "U+10B7", "U+10B8", "U+10B9",
     "U+10BA", "U+10BB", "U+10BC", "U+10BD", "U+10BE", "U+10BF", "U+10C0", "U+10C1", "U+10C2",
     "U+10C3", "U+10C4", "U+10C5", "U+10C7", "U+10CD", "U+13A0", "U+13A1", "U+13A2", "U+13A3",
     "U+13A4", "U+13A5", "U+13A6", "U+13A7", "U+13A8", "U+13A9", "U+13AA", "U+13AB", "U+13AC",
     "U+13AD", "U+13AE", "U+13AF", "U+13B0", "U+13B1", "U+13B2", "U+13B3", "U+13B4", "U+13B5",
     "U+13B6", "U+13B7", "U+13B8", "U+13B9", "U+13BA", "U+13BB", "U+13BC", "U+13BD", "U+13BE",
     "U+13BF", "U+13C0", "U+13C1", "U+13C2", "U+13C3", "U+13C4", "U+13C5", "U+13C6", "U+13C7",
     "U+13C8", "U+13C9", "U+13CA", "U+13CB", "U+13CC", "U+13CD", "U+13CE", "U+13CF", "U+13D0",
     "U+13D1", "U+13D2", "U+13D3", "U+13D4", "U+13D5", "U+13D6", "U+13D7", "U+13D8", "U+13D9",
     "U+13DA", "U+13DB", "U+13DC", "U+13DD", "U+13DE", "U+13DF", "U+13E0", "U+13E1", "U+13E2",
     "U+13E3", "U+13E4", "U+13E5", "U+13E6", "U+13E7", "U+13E8", "U+13E9", "U+13EA", "U+13EB",
     "U+13EC", "U+13ED", "U+13EE", "U+13EF", "U+13F0", "U+13F1", "U+13F2", "U+13F3", "U+13F4",
     "U+13F5", "U+1C90", "U+1C91", "U+1C92", "U+1C93", "U+1C94", "U+1C95", "U+1C96", "U+1C97",
     "U+1C98", "U+1C99", "U+1C9A", "U+1C9B", "U+1C9C", "U+1C9D", "U+1C9E", "U+1C9F", "U+1CA0",
     "U+1CA1", "U+1CA2", "U+1CA3", "U+1CA4", "U+1CA5", "U+1CA6", "U+1CA7", "U+1CA8", "U+1CA9",
     "U+1CAA", "U+1CAB", "U+1CAC", "U+1CAD", "U+1CAE", "U+1CAF", "U+1CB0", "U+1CB1", "U+1CB2",
     "U+1CB3", "U+1CB4", "U+1CB5", "U+1CB6", "U+1CB7", "U+1CB8", "U+1CB9", "U+1CBA", "U+1CBD",
     "U+1CBE", "U+1CBF", "U+1E00", "U+1E02", "U+1E04", "U+1E06", "U+1E08", "U+1E0A", "U+1E0C",
     "U+1E0E", "U+1E10", "U+1E12", "U+1E14", "U+1E16", "U+1E18", "U+1E1A", "U+1E1C", "U+1E1E",
     "U+1E20", "U+1E22", "U+1E24", "U+1E26", "U+1E28", "U+1E2A", "U+1E2C", "U+1E2E", "U+1E30",
     "U+1E32", "U+1E34", "U+1E36", "U+1E38", "U+1E3A", "U+1E3C", "U+1E3E", "U+1E40", "U+1E42",
     "U+1E44", "U+1E46", "U+1E48", "U+1E4A", "U+1E4C", "U+1E4E", "U+1E50", "U+1E52", "U+1E54",
     "U+1E56", "U+1E58", "U+1E5A", "U+1E5C", "U+1E5E", "U+1E60", "U+1E62", "U+1E64", "U+1E66",
     "U+1E68", "U+1E6A", "U+1E6C", "U+1E6E", "U+1E70", "U+1E72", "U+1E74", "U+1E76", "U+1E78",
     "U+1E7A", "U+1E7C", "U+1E7E", "U+1E80", "U+1E82", "U+1E84", "U+1E86", "U+1E88", "U+1E8A",
     "U+1E8C", "U+1E8E", "U+1E90", "U+1E92", "U+1E94", "U+1E9E", "U+1EA0", "U+1EA2", "U+1EA4",
     "U+1EA6", "U+1EA8", "U+1EAA", "U+1EAC", "U+1EAE", "U+1EB0", "U+1EB2", "U+1EB4", "U+1EB6",
     "U+1EB8", "U+1EBA", "U+1EBC", "U+1EBE", "U+1EC0", "U+1EC2", "U+1EC4", "U+1EC6", "U+1EC8",
     "U+1ECA", "U+1ECC", "U+1ECE", "U+1ED0", "U+1ED2", "U+1ED4", "U+1ED6", "U+1ED8", "U+1EDA",
     "U+1EDC", "U+1EDE", "U+1EE0", "U+1EE2", "U+1EE4", "U+1EE6", "U+1EE8", "U+1EEA", "U+1EEC",
     "U+1EEE", "U+1EF0", "U+1EF2", "U+1EF4", "U+1EF6", "U+1EF8", "U+1EFA", "U+1EFC", "U+1EFE",
     "U+1F08", "U+1F09", "U+1F0A", "U+1F0B", "U+1F0C", "U+1F0D", "U+1F0E", "U+1F0F", "U+1F18",
     "U+1F19", "U+1F1A", "U+1F1B", "U+1F1C", "U+1F1D", "U+1F28", "U+1F29", "U+1F2A", "U+1F2B",
     "U+1F2C", "U+1F2D", "U+1F2E", "U+1F2F", "U+1F38", "U+1F39", "U+1F3A", "U+1F3B", "U+1F3C",
     "U+1F3D", "U+1F3E", "U+1F3F", "U+1F48", "U+1F49", "U+1F4A", "U+1F4B", "U+1F4C", "U+1F4D",
     "U+1F59", "U+1F5B", "U+1F5D", "U+1F5F", "U+1F68", "U+1F69", "U+1F6A", "U+1F6B", "U+1F6C",
     "U+1F6D", "U+1F6E", "U+1F6F", "U+1F88", "U+1F89", "U+1F8A", "U+1F8B", "U+1F8C", "U+1F8D",
     "U+1F8E", "U+1F8F", "U+1F98", "U+1F99", "U+1F9A", "U+1F9B", "U+1F9C", "U+1F9D", "U+1F9E",
     "U+1F9F", "U+1FA8", "U+1FA9", "U+1FAA", "U+1FAB", "U+1FAC", "U+1FAD", "U+1FAE", "U+1FAF",
     "U+1FB8", "U+1FB9", "U+1FBA", "U+1FBB", "U+1FBC", "U+1FC8", "U+1FC9", "U+1FCA", "U+1FCB",
     "U+1FCC", "U+1FD8", "U+1FD9", "U+1FDA", "U+1FDB", "U+1FE8", "U+1FE9", "U+1FEA", "U+1FEB",
     "U+1FEC", "U+1FF8", "U+1FF9", "U+1FFA", "U+1FFB", "U+1FFC", "U+2126", "U+212A", "U+212B",
     "U+2132", "U+2160", "U+2161", "U+2162", "U+2163", "U+2164", "U+2165", "U+2166", "U+2167",
     "U+2168", "U+2169", "U+216A", "U+216B", "U+216C", "U+216D", "U+216E", "U+216F", "U+2183",
     "U+24B6", "U+24B7", "U+24B8", "U+24B9", "U+24BA", "U+24BB", "U+24BC", "U+24BD", "U+24BE",
     "U+24BF", "U+24C0", "U+24C1", "U+24C2", "U+24C3", "U+24C4", "U+24C5", "U+24C6", "U+24C7",
     "U+24C8", "U+24C9", "U+24CA", "U+24CB", "U+24CC", "U+24CD", "U+24CE", "U+24CF", "U+2C00",
     "U+2C01", "U+2C02", "U+2C03", "U+2C04", "U+2C05", "U+2C06", "U+2C07", "U+2C08", "U+2C09",
     "U+2C0A", "U+2C0B", "U+2C0C", "U+2C0D", "U+2C0E", "U+2C0F", "U+2C10", "U+2C11", "U+2C12",
     "U+2C13", "U+2C14", "U+2C15", "U+2C16", "U+2C17", "U+2C18", "U+2C19", "U+2C1A", "U+2C1B",
     "U+2C1C", "U+2C1D", "U+2C1E", "U+2C1F", "U+2C20", "U+2C21", "U+2C22", "U+2C23", "U+2C24",
     "U+2C25", "U+2C26", "U+2C27", "U+2C28", "U+2C29", "U+2C2A", "U+2C2B", "U+2C2C", "U+2C2D",
     "U+2C2E", "U+2C2F", "U+2C60", "U+2C62", "U+2C63", "U+2C64", "U+2C67", "U+2C69", "U+2C6B",
     "U+2C6D", "U+2C6E", "U+2C6F", "U+2C70", "U+2C72", "U+2C75", "U+2C7E", "U+2C7F", "U+2C80",
     "U+2C82", "U+2C84", "U+2C86", "U+2C88", "U+2C8A", "U+2C8C", "U+2C8E", "U+2C90", "U+2C92",
     "U+2C94", "U+2C96", "U+2C98", "U+2C9A", "U+2C9C", "U+2C9E", "U+2CA0", "U+2CA2", "U+2CA4",
     "U+2CA6", "U+2CA8", "U+2CAA", "U+2CAC", "U+2CAE", "U+2CB0", "U+2CB2", "U+2CB4", "U+2CB6",
     "U+2CB8", "U+2CBA", "U+2CBC", "U+2CBE", "U+2CC0", "U+2CC2", "U+2CC4", "U+2CC6", "U+2CC8",
     "U+2CCA", "U+2CCC", "U+2CCE", "U+2CD0", "U+2CD2", "U+2CD4", "U+2CD6", "U+2CD8", "U+2CDA",
     "U+2CDC", "U+2CDE", "U+2CE0", "U+2CE2", "U+2CEB", "U+2CED", "U+2CF2" >>

OtherLower ==
  << "U+00E0", "U+00E1", "U+00E2", "U+00E3", "U+00E4", "U+00E5", "U+00E6", "U+00E7", "U+00E8",
     "U+00E9", "U+00EA", "U+00EB", "U+00EC", "U+00ED", "U+00EE", "U+00EF", "U+00F0", "U+00F1",
     "U+00F2", "U+00F3", "U+00F4", "U+00F5", "U+00F6", "U+00F8", "U+00F9", "U+00FA", "U+00FB",
     "U+00FC", "U+00FD", "U+00FE", "U+0101", "U+0103", "U+0105", "U+0107", "U+0109", "U+010B",
     "U+010D", "U+010F", "U+0111", "U+0113", "U+0115", "U+0117", "U+0119", "U+011B", "U+011D",
     "U+011F", "U+0121", "U+0123", "U+0125", "U+0127", "U+0129", "U+012B", "U+012D", "U+012F",
     "U+0133", "U+0135", "U+0137", "U+013A", "U+013C", "U+013E", "U+0140", "U+0142", "U+0144",
     "U+0146", "U+0148", "U+014B", "U+014D", "U+014F", "U+0151", "U+0153", "U+0155", "U+0157",
     "U+0159", "U+015B", "U+015D", "U+015F", "U+0161", "U+0163", "U+0165", "U+0167", "U+0169",
     "U+016B", "U+016D", "U+016F", "U+0171", "U+0173", "U+0175", "U+0177", "U+00FF", "U+017A",
     "U+017C", "U+017E", "U+0253", "U+0183", "U+0185", "U+0254", "U+0188", "U+0256", "U+0257",
     "U+018C", "U+01DD", "U+0259", "U+025B", "U+0192", "U+0260", "U+0263", "U+0269", "U+0268",
     "U+0199", "U+026F", "U+0272", "U+0275", "U+01A1", "U+01A3", "U+01A5", "U+0280", "U+01A8",
     "U+0283", "U+01AD", "U+0288", "U+01B0", "U+028A", "U+028B", "U+01B4", "U+01B6", "U+0292",
     "U+01B9", "U+01BD", "U+01C6", "U+01C6", "U+01C9", "U+01C9", "U+01CC", "U+01CC", "U+01CE",
     "U+01D0", "U+01D2", "U+01D4", "U+01D6", "U+01D8", "U+01DA", "U+01DC", "U+01DF", "U+01E1",
     "U+01E3", "U+01E5", "U+01E7", "U+01E9", "U+01EB", "U+01ED", "U+01EF", "U+01F3", "U+01F3",
     "U+01F5", "U+0195", "U+01BF", "U+01F9", "U+01FB", "U+01FD", "U+01FF", "U+0201", "U+0203",
     "U+0205", "U+0207", "U+0209", "U+020B", "U+020D", "U+020F", "U+0211", "U+0213", "U+0215",
     "U+0217", "U+0219", "U+021B", "U+021D", "U+021F", "U+019E", "U+0223", "U+0225", "U+0227",
     "U+0229", "U+022B", "U+022D", "U+022F", "U+0231", "U+0233", "U+2C65", "U+023C", "U+019A",
     "U+2C66", "U+0242", "U+0180", "U+0289", "U+028C", "U+0247", "U+0249", "U+024B", "U+024D",
     "U+024F", "U+0371", "U+0373", "U+0377", "U+03F3", "U+03AC", "U+03AD", "U+03AE", "U+03AF",
     "U+03CC", "U+03CD", "U+03CE", "U+03B1", "U+03B2", "U+03B3", "U+03B4", "U+03B5", "U+03B6",
     "U+03B7", "U+03B8", "U+03B9", "U+03BA", "U+03BB", "U+03BC", "U+03BD", "U+03BE", "U+03BF",
     "U+03C0", "U+03C1", "U+03C3", "U+03C4", "U+03C5", "U+03C6", "U+03C7", "U+03C8", "U+03C9",
     "U+03CA", "U+03CB", "U+03D7", "U+03D9", "U+03DB", "U+03DD", "U+03DF", "U+03E1", "U+03E3",
     "U+03E5", "U+03E7", "U+03E9", "U+03EB", "U+03ED", "U+03EF", "U+03B8", "U+03F8", "U+03F2",
     "U+03FB", "U+037B", "U+037C", "U+037D", "U+0450", "U+0451", "U+0452", "U+0453", "U+0454",
     "U+0455", "U+0456", "U+0457", "U+0458", "U+0459", "U+045A", "U+045B", "U+045C", "U+045D",
     "U+045E", "U+045F", "U+0430", "U+0431", "U+0432", "U+0433", "U+0434", "U+0435", "U+0436",
     "U+0437", "U+0438", "U+0439", "U+043A", "U+043B", "U+043C", "U+043D", "U+043E", "U+043F",
     "U+0440", "U+0441", "U+0442", "U+0443", "U+0444", "U+0445", "U+0446", "U+0447", "U+0448",
     "U+0449", "U+044A", "U+044B", "U+044C", "U+044D", "U+044E", "U+044F", "U+0461", "U+0463",
     "U+0465", "U+0467", "U+0469", "U+046B", "U+046D", "U+046F", "U+0471", "U+0473", "U+0475",
     "U+0477", "U+0479", "U+047B", "U+047D", "U+047F", "U+0481", "U+048B", "U+048D", "U+048F",
     "U+0491", "U+0493", "U+0495", "U+0497", "U+0499", "U+049B", "U+049D", "U+049F", "U+04A1",
     "U+04A3", "U+04A5", "U+04A7", "U+04A9", "U+04AB", "U+04AD", "U+04AF", "U+04B1", "U+04B3",
     "U+04B5", "U+04B7", "U+04B9", "U+04BB", "U+04BD", "U+04BF", "U+04CF", "U+04C2", "U+04C4",
     "U+04C6", "U+04C8", "U+04CA", "U+04CC", "U+04CE", "U+04D1", "U+04D3", "U+04D5", "U+04D7",
     "U+04D9", "U+04DB", "U+04DD", "U+04DF", "U+04E1", "U+04E3", "U+04E5", "U+04E7", "U+04E9",
     "U+04EB", "U+04ED", "U+04EF", "U+04F1", "U+04F3", "U+04F5", "U+04F7", "U+04F9", "U+04FB",
     "U+04FD", "U+04FF", "U+0501", "U+0503", "U+0505", "U+0507", "U+0509", "U+050B", "U+050D",
     "U+050F", "U+0511", "U+0513", "U+0515", "U+0517", "U+0519", "U+051B", "U+051D", "U+051F",
     "U+0521", "U+0523", "U+0525", "U+0527", "U+0529", "U+052B", "U+052D", "U+052F", "U+0561",
     "U+0562", "U+0563", "U+0564", "U+0565", "U+0566", "U+0567", "U+0568", "U+0569", "U+056A",
     "U+056B", "U+056C", "U+056D", "U+056E", "U+056F", "U+0570", "U+0571", "U+0572", "U+0573",
     "U+0574", "U+0575", "U+0576", "U+0577", "U+0578", "U+0579", "U+057A", "U+057B", "U+057C",
     "U+057D", "U+057E", "U+057F", "U+0580", "U+0581", "U+0582", "U+0583", "U+0584", "U+0585",
     "U+0586", "U+2D00", "U+2D01", "U+2D02", "U+2D03", "U+2D04", "U+2D05", "U+2D06", "U+2D07",
     "U+2D08", "U+2D09", "U+2D0A", "U+2D0B", "U+2D0C", "U+2D0D", "U+2D0E", "U+2D0F", "U+2D10",
     "U+2D11", "U+2D12", "U+2D13", "U+2D14", "U+2D15", "U+2D16", "U+2D17", "U+2D18", "U+2D19",
     "U+2D1A", "U+2D1B", "U+2D1C", "U+2D1D", "U+2D1E", "U+2D1F", "U+2D20", "U+2D21", "U+2D22",
     "U+2D23", "U+2D24", "U+2D25", "U+2D27", "U+2D2D", "U+AB70", "U+AB71", "U+AB72", "U+AB73",
     "U+AB74", "U+AB75", "U+AB76", "U+AB77", "U+AB78", "U+AB79", "U+AB7A", "U+AB7B", "U+AB7C",
     "U+AB7D", "U+AB7E", "U+AB7F", "U+AB80", "U+AB81", "U+AB82", "U+AB83", "U+AB84", "U+AB85",
     "U+AB86", "U+AB87", "U+AB88", "U+AB89", "U+AB8A", "U+AB8B", "U+AB8C", "U+AB8D", "U+AB8E",
     "U+AB8F", "U+AB90", "U+AB91", "U+AB92", "U+AB93", "U+AB94", "U+AB95", "U+AB96", "U+AB97",
     "U+AB98", "U+AB99", "U+AB9A", "U+AB9B", "U+AB9C", "U+AB9D", "U+AB9E", "U+AB9F", "U+ABA0",
     "U+ABA1", "U+ABA2", "U+ABA3", "U+ABA4", "U+ABA5", "U+ABA6", "U+ABA7", "U+ABA8", "U+ABA9",
     "U+ABAA", "U+ABAB", "U+ABAC", "U+ABAD", "U+ABAE", "U+ABAF", "U+ABB0", "U+ABB1", "U+ABB2",
     "U+ABB3", "U+ABB4", "U+ABB5", "U+ABB6", "U+ABB7", "U+ABB8", "U+ABB9", "U+ABBA", "U+ABBB",
     "U+ABBC", "U+ABBD", "U+ABBE", "U+ABBF", "U+13F8", "U+13F9", "U+13FA", "U+13FB", "U+13FC",
     "U+13FD", "U+10D0", "U+10D1", "U+10D2", "U+10D3", "U+10D4", "U+10D5", "U+10D6", "U+10D7",
     "U+10D8", "U+10D9", "U+10DA", "U+10DB", "U+10DC", "U+10DD", "U+10DE", "U+10DF", "U+10E0",
     "U+10E1", "U+10E2", "U+10E3", "U+10E4", "U+10E5", "U+10E6", "U+10E7", "U+10E8", "U+10E9",
     "U+10EA", "U+10EB", "U+10EC", "U+10ED", "U+10EE", "U+10EF", "U+10F0", "U+10F1", "U+10F2",
     "U+10F3", "U+10F4", "U+10F5", "U+10F6", "U+10F7", "U+10F8", "U+10F9", "U+10FA", "U+10FD",
     "U+10FE", "U+10FF", "U+1E01", "U+1E03", "U+1E05", "U+1E07", "U+1E09", "U+1E0B", "U+1E0D",
     "U+1E0F", "U+1E11", "U+1E13", "U+1E15", "U+1E17", "U+1E19", "U+1E1B", "U+1E1D", "U+1E1F",
     "U+1E21", "U+1E23", "U+1E25", "U+1E27", "U+1E29", "U+1E2B", "U+1E2D", "U+1E2F", "U+1E31",
     "U+1E33", "U+1E35", "U+1E37", "U+1E39", "U+1E3B", "U+1E3D", "U+1E3F", "U+1E41", "U+1E43",
     "U+1E45", "U+1E47", "U+1E49", "U+1E4B", "U+1E4D", "U+1E4F", "U+1E51", "U+1E53", "U+1E55",
     "U+1E57", "U+1E59", "U+1E5B", "U+1E5D", "U+1E5F", "U+1E61", "U+1E63", "U+1E65", "U+1E67",
     "U+1E69", "U+1E6B", "U+1E6D", "U+1E6F", "U+1E71", "U+1E73", "U+1E75", "U+1E77", "U+1E79",
     "U+1E7B", "U+1E7D", "U+1E7F", "U+1E81", "U+1E83", "U+1E85", "U+1E87", "U+1E89", "U+1E8B",
     "U+1E8D", "U+1E8F", "U+1E91", "U+1E93", "U+1E95", "U+00DF", "U+1EA1", "U+1EA3", "U+1EA5",
     "U+1EA7", "U+1EA9", "U+1EAB", "U+1EAD", "U+1EAF", "U+1EB1", "U+1EB3", "U+1EB5", "U+1EB7",
     "U+1EB9", "U+1EBB", "U+1EBD", "U+1EBF", "U+1EC1", "U+1EC3", "U+1EC5", "U+1EC7", "U+1EC9",
     "U+1ECB", "U+1ECD", "U+1ECF", "U+1ED1", "U+1ED3", "U+1ED5", "U+1ED7", "U+1ED9", "U+1EDB",
     "U+1EDD", "U+1EDF", "U+1EE1", "U+1EE3", "U+1EE5", "U+1EE7", "U+1EE9", "U+1EEB", "U+1EED",
     "U+1EEF", "U+1EF1", "U+1EF3", "U+1EF5", "U+1EF7", "U+1EF9", "U+1EFB", "U+1EFD", "U+1EFF",
     "U+1F00", "U+1F01", "U+1F02", "U+1F03", "U+1F04", "U+1F05", "U+1F06", "U+1F07", "U+1F10",
     "U+1F11", "U+1F12", "U+1F13", "U+1F14", "U+1F15", "U+1F20", "U+1F21", "U+1F22", "U+1F23",
     "U+1F24", "U+1F25", "U+1F26", "U+1F27", "U+1F30", "U+1F31", "U+1F32", "U+1F33", "U+1F34",
     "U+1F35", "U+1F36", "U+1F37", "U+1F40", "U+1F41", "U+1F42", "U+1F43", "U+1F44", "U+1F45",
     "U+1F51", "U+1F53", "U+1F55", "U+1F57", "U+1F60", "U+1F61", "U+1F62", "U+1F63", "U+1F64",
     "U+1F65", "U+1F66", "U+1F67", "U+1F80", "U+1F81", "U+1F82", "U+1F83", "U+1F84", "U+1F85",
     "U+1F86", "U+1F87", "U+1F90", "U+1F91", "U+1F92", "U+1F93", "U+1F94", "U+1F95", "U+1F96",
     "U+1F97", "U+1FA0", "U+1FA1", "U+1FA2", "U+1FA3", "U+1FA4", "U+1FA5", "U+1FA6", "U+1FA7",
     "U+1FB0", "U+1FB1", "U+1F70", "U+1F71", "U+1FB3", "U+1F72", "U+1F73", "U+1F74", "U+1F75",
     "U+1FC3", "U+1FD0", "U+1FD1", "U+1F76", "U+1F77", "U+1FE0", "U+1FE1", "U+1F7A", "U+1F7B",
     "U+1FE5", "U+1F78", "U+1F79", "U+1F7C", "U+1F7D", "U+1FF3", "U+03C9", "k", "U+00E5",
     "U+214E", "U+2170", "U+2171", "U+2172", "U+2173", "U+2174", "U+2175", "U+2176", "U+2177",
     "U+2178", "U+2179", "U+217A", "U+217B", "U+217C", "U+217D", "U+217E", "U+217F", "U+2184",
     "U+24D0", "U+24D1", "U+24D2", "U+24D3", "U+24D4", "U+24D5", "U+24D6", "U+24D7", "U+24D8",
     "U+24D9", "U+24DA", "U+24DB", "U+24DC", "U+24DD", "U+24DE", "U+24DF", "U+24E0", "U+24E1",
     "U+24E2", "U+24E3", "U+24E4", "U+24E5", "U+24E6", "U+24E7", "U+24E8", "U+24E9", "U+2C30",
     "U+2C31", "U+2C32", "U+2C33", "U+2C34", "U+2C35", "U+2C36", "U+2C37", "U+2C38", "U+2C39",
     "U+2C3A", "U+2C3B", "U+2C3C", "U+2C3D", "U+2C3E", "U+2C3F", "U+2C40", "U+2C41", "U+2C42",
     "U+2C43", "U+2C44", "U+2C45", "U+2C46", "U+2C47", "U+2C48", "U+2C49", "U+2C4A", "U+2C4B",
     "U+2C4C", "U+2C4D", "U+2C4E", "U+2C4F", "U+2C50", "U+2C51", "U+2C52", "U+2C53", "U+2C54",
     "U+2C55", "U+2C56", "U+2C57", "U+2C58", "U+2C59", "U+2C5A", "U+2C5B", "U+2C5C", "U+2C5D",
     "U+2C5E", "U+2C5F", "U+2C61", "U+026B", "U+1D7D", "U+027D", "U+2C68", "U+2C6A", "U+2C6C",
     "U+0251", "U+0271", "U+0250", "U+0252", "U+2C73", "U+2C76", "U+023F", "U+0240", "U+2C81",
     "U+2C83", "U+2C85", "U+2C87", "U+2C89", "U+2C8B", "U+2C8D", "U+2C8F", "U+2C91", "U+2C93",
     "U+2C95", "U+2C97", "U+2C99", "U+2C9B", "U+2C9D", "U+2C9F", "U+2CA1", "U+2CA3", "U+2CA5",
     "U+2CA7", "U+2CA9", "U+2CAB", "U+2CAD", "U+2CAF", "U+2CB1", "U+2CB3", "U+2CB5", "U+2CB7",
     "U+2CB9", "U+2CBB", "U+2CBD", "U+2CBF", "U+2CC1", "U+2CC3", "U+2CC5", "U+2CC7", "U+2CC9",
     "U+2CCB", "U+2CCD", "U+2CCF", "U+2CD1", "U+2CD3", "U+2CD5", "U+2CD7", "U+2CD9", "U+2CDB",
     "U+2CDD", "U+2CDF", "U+2CE1", "U+2CE3", "U+2CEC", "U+2CEE", "U+2CF3" >>

LowerOf ==
  [c \in {OtherUpper[i] : i \in 1..Len(OtherUpper)} |->
     OtherLower[CHOOSE i \in 1..Len(OtherUpper) : OtherUpper[i] = c]]

\* str.lower() of one character that lowers to one character whatever
\* stands around it
LowerChar(c) ==
  IF c \in UpperSet
    THEN LowerCase[CHOOSE i \in 1..26 : UpperCase[i] = c]
  ELSE IF c \in LowerSet
    THEN c
  ELSE IF c \in DOMAIN LowerOf
    THEN LowerOf[c]
  ELSE c

\* The characters with the property Case_Ignorable, which str.lower() passes
\* over when it looks for the letters around a capital sigma, and the
\* characters with the property Cased that are not among them.
CaseIgnorable ==
  {"'", ".", ":", "^", "U+0060", "U+00A8", "U+00AD", "U+00AF", "U+00B4",
     "U+00B7", "U+00B8", "U+02B0", "U+02B1", "U+02B2", "U+02B3", "U+02B4", "U+02B5", "U+02B6",
     "U+02B7", "U+02B8", "U+02B9", "U+02BA", "U+02BB", "U+02BC", "U+02BD", "U+02BE", "U+02BF",
     "U+02C0", "U+02C1", "U+02C2", "U+02C3", "U+02C4", "U+02C5", "U+02C6", "U+02C7", "U+02C8",
     "U+02C9", "U+02CA", "U+02CB", "U+02CC", "U+02CD", "U+02CE", "U+02CF", "U+02D0", "U+02D1",
     "U+02D2", "U+02D3", "U+02D4", "U+02D5", "U+02D6", "U+02D7", "U+02D8", "U+02D9", "U+02DA",
     "U+02DB", "U+02DC", "U+02DD", "U+02DE", "U+02DF", "U+02E0", "U+02E1", "U+02E2", "U+02E3",
     "U+02E4", "U+02E5", "U+02E6", "U+02E7", "U+02E8", "U+02E9", "U+02EA", "U+02EB", "U+02EC",
     "U+02ED", "U+02EE", "U+02EF", "U+02F0", "U+02F1", "U+02F2", "U+02F3", "U+02F4", "U+02F5",
     "U+02F6", "U+02F7", "U+02F8", "U+02F9", "U+02FA", "U+02FB", "U+02FC", "U+02FD", "U+02FE",
     "U+02FF", "U+0300", "U+0301", "U+0302", "U+0303", "U+0304", "U+0305", "U+0306", "U+0307",
     "U+0308", "U+0309", "U+030A", "U+030B", "U+030C", "U+030D", "U+030E", "U+030F", "U+0310",
     "U+0311", "U+0312", "U+0313", "U+0314", "U+0315", "U+0316", "U+0317", "U+0318", "U+0319",
     "U+031A", "U+031B", "U+031C", "U+031D", "U+031E", "U+031F", "U+0320", "U+0321", "U+0322",
     "U+0323", "U+0324", "U+0325", "U+0326", "U+0327", "U+0328", "U+0329", "U+032A", "U+032B",
     "U+032C", "U+032D", "U+032E", "U+032F", "U+0330", "U+0331", "U+0332", "U+0333", "U+0334",
     "U+0335", "U+0336", "U+0337", "U+0338", "U+0339", "U+033A", "U+033B", "U+033C", "U+033D",
     "U+033E", "U+033F", "U+0340", "U+0341", "U+0342", "U+0343", "U+0344", "U+0345", "U+0346",
     "U+0347", "U+0348", "U+0349", "U+034A", "U+034B", "U+034C", "U+034D", "U+034E", "U+034F",
     "U+0350", "U+0351", "U+0352", "U+0353", "U+0354", "U+0355", "U+0356", "U+0357", "U+0358",
     "U+0359", "U+035A", "U+035B", "U+035C", "U+035D", "U+035E", "U+035F", "U+0360", "U+0361",
     "U+0362", "U+0363", "U+0364", "U+0365", "U+0366", "U+0367", "U+0368", "U+0369", "U+036A",
     "U+036B", "U+036C", "U+036D", "U+036E", "U+036F", "U+0374", "U+0375", "U+037A", "U+0384",
     "U+0385", "U+0387", "U+0483", "U+0484", "U+0485", "U+0486", "U+0487", "U+0488", "U+0489",
     "U+0559", "U+055F", "U+0591", "U+0592", "U+0593", "U+0594", "U+0595", "U+0596", "U+0597",
     "U+0598", "U+0599", "U+059A", "U+059B", "U+059C", "U+059D", "U+059E", "U+059F", "U+05A0",
     "U+05A1", "U+05A2", "U+05A3", "U+05A4", "U+05A5", "U+05A6", "U+05A7", "U+05A8", "U+05A9",
     "U+05AA", "U+05AB", "U+05AC", "U+05AD", "U+05AE", "U+05AF", "U+05B0", "U+05B1", "U+05B2",
     "U+05B3", "U+05B4", "U+05B5", "U+05B6", "U+05B7", "U+05B8", "U+05B9", "U+05BA", "U+05BB",
     "U+05BC", "U+05BD", "U+05BF", "U+05C1", "U+05C2", "U+05C4", "U+05C5", "U+05C7", "U+05F4",
     "U+0600", "U+0601", "U+0602", "U+0603", "U+0604", "U+0605", "U+0610", "U+0611", "U+0612",
     "U+0613", "U+0614", "U+0615", "U+0616", "U+0617", "U+0618", "U+0619", "U+061A", "U+061C",
     "U+0640", "U+064B", "U+064C", "U+064D", "U+064E", "U+064F", "U+0650", "U+0651", "U+0652",
     "U+0653", "U+0654", "U+0655", "U+0656", "U+0657", "U+0658", "U+0659", "U+065A", "U+065B",
     "U+065C", "U+065D", "U+065E", "U+065F", "U+0670", "U+06D6", "U+06D7", "U+06D8", "U+06D9",
     "U+06DA", "U+06DB", "U+06DC", "U+06DD", "U+06DF", "U+06E0", "U+06E1", "U+06E2", "U+06E3",
     "U+06E4", "U+06E5", "U+06E6", "U+06E7", "U+06E8", "U+06EA", "U+06EB", "U+06EC", "U+06ED",
     "U+070F", "U+0711", "U+0730", "U+0731", "U+0732", "U+0733", "U+0734", "U+0735", "U+0736",
     "U+0737", "U+0738", "U+0739", "U+073A", "U+073B", "U+073C", "U+073D", "U+073E", "U+073F",
     "U+0740", "U+0741", "U+0742", "U+0743", "U+0744", "U+0745", "U+0746", "U+0747", "U+0748",
     "U+0749", "U+074A", "U+07A6", "U+07A7", "U+07A8", "U+07A9", "U+07AA", "U+07AB", "U+07AC",
     "U+07AD", "U+07AE", "U+07AF", "U+07B0", "U+07EB", "U+07EC", "U+07ED", "U+07EE", "U+07EF",
     "U+07F0", "U+07F1", "U+07F2", "U+07F3", "U+07F4", "U+07F5", "U+07FA", "U+07FD", "U+0816",
     "U+0817", "U+0818", "U+0819", "U+081A", "U+081B", "U+081C", "U+081D", "U+081E", "U+081F",
     "U+0820", "U+0821", "U+0822", "U+0823", "U+0824", "U+0825", "U+0826", "U+0827", "U+0828",
     "U+0829", "U+082A", "U+082B", "U+082C", "U+082D", "U+0859", "U+085A", "U+085B", "U+0888",
     "U+0890", "U+0891", "U+0898", "U+0899", "U+089A", "U+089B", "U+089C", "U+089D", "U+089E",
     "U+089F", "U+08C9", "U+08CA", "U+08CB", "U+08CC", "U+08CD", "U+08CE", "U+08CF", "U+08D0",
     "U+08D1", "U+08D2", "U+08D3", "U+08D4", "U+08D5", "U+08D6", "U+08D7", "U+08D8", "U+08D9",
     "U+08DA", "U+08DB", "U+08DC", "U+08DD", "U+08DE", "U+08DF", "U+08E0", "U+08E1", "U+08E2",
     "U+08E3", "U+08E4", "U+08E5", "U+08E6", "U+08E7", "U+08E8", "U+08E9", "U+08EA", "U+08EB",
     "U+08EC", "U+08ED", "U+08EE", "U+08EF", "U+08F0", "U+08F1", "U+08F2", "U+08F3", "U+08F4",
     "U+08F5", "U+08F6", "U+08F7", "U+08F8", "U+08F9", "U+08FA", "U+08FB", "U+08FC", "U+08FD",
     "U+08FE", "U+08FF", "U+0900", "U+0901", "U+0902", "U+093A", "U+093C", "U+0941", "U+0942",
     "U+0943", "U+0944", "U+0945", "U+0946", "U+0947", "U+0948", "U+094D", "U+0951", "U+0952",
     "U+0953", "U+0954", "U+0955", "U+0956", "U+0957", "U+0962", "U+0963", "U+0971", "U+0981",
     "U+09BC", "U+09C1", "U+09C2", "U+09C3", "U+09C4", "U+09CD", "U+09E2", "U+09E3", "U+09FE",
     "U+0A01", "U+0A02", "U+0A3C", "U+0A41", "U+0A42", "U+0A47", "U+0A48", "U+0A4B", "U+0A4C",
     "U+0A4D", "U+0A51", "U+0A70", "U+0A71", "U+0A75", "U+0A81", "U+0A82", "U+0ABC", "U+0AC1",
     "U+0AC2", "U+0AC3", "U+0AC4", "U+0AC5", "U+0AC7", "U+0AC8", "U+0ACD", "U+0AE2", "U+0AE3",
     "U+0AFA", "U+0AFB", "U+0AFC", "U+0AFD", "U+0AFE", "U+0AFF", "U+0B01", "U+0B3C", "U+0B3F",
     "U+0B41", "U+0B42", "U+0B43", "U+0B44", "U+0B4D", "U+0B55", "U+0B56", "U+0B62", "U+0B63",
     "U+0B82", "U+0BC0", "U+0BCD", "U+0C00", "U+0C04", "U+0C3C", "U+0C3E", "U+0C3F", "U+0C40",
     "U+0C46", "U+0C47", "U+0C48", "U+0C4A", "U+0C4B", "U+0C4C", "U+0C4D", "U+0C55", "U+0C56",
     "U+0C62", "U+0C63", "U+0C81", "U+0CBC", "U+0CBF", "U+0CC6", "U+0CCC", "U+0CCD", "U+0CE2",
     "U+0CE3", "U+0D00", "U+0D01", "U+0D3B", "U+0D3C", "U+0D41", "U+0D42", "U+0D43", "U+0D44",
     "U+0D4D", "U+0D62", "U+0D63", "U+0D81", "U+0DCA", "U+0DD2", "U+0DD3", "U+0DD4", "U+0DD6",
     "U+0E31", "U+0E34", "U+0E35", "U+0E36", "U+0E37", "U+0E38", "U+0E39", "U+0E3A", "U+0E46",
     "U+0E47", "U+0E48", "U+0E49", "U+0E4A", "U+0E4B", "U+0E4C", "U+0E4D", "U+0E4E", "U+0EB1",
     "U+0EB4", "U+0EB5", "U+0EB6", "U+0EB7", "U+0EB8", "U+0EB9", "U+0EBA", "U+0EBB", "U+0EBC",
     "U+0EC6", "U+0EC8", "U+0EC9", "U+0ECA", "U+0ECB", "U+0ECC", "U+0ECD", "U+0ECE", "U+0F18", "U+0F19",
     "U+0F35", "U+0F37", "U+0F39", "U+0F71", "U+0F72", "U+0F73", "U+0F74", "U+0F75", "U+0F76",
     "U+0F77", "U+0F78", "U+0F79", "U+0F7A", "U+0F7B", "U+0F7C", "U+0F7D", "U+0F7E", "U+0F80",
     "U+0F81", "U+0F82", "U+0F83", "U+0F84", "U+0F86", "U+0F87", "U+0F8D", "U+0F8E", "U+0F8F",
     "U+0F90", "U+0F91", "U+0F92", "U+0F93", "U+0F94", "U+0F95", "U+0F96", "U+0F97", "U+0F99",
     "U+0F9A", "U+0F9B", "U+0F9C", "U+0F9D", "U+0F9E", "U+0F9F", "U+0FA0", "U+0FA1", "U+0FA2",
     "U+0FA3", "U+0FA4", "U+0FA5", "U+0FA6", "U+0FA7", "U+0FA8", "U+0FA9", "U+0FAA", "U+0FAB",
     "U+0FAC", "U+0FAD", "U+0FAE", "U+0FAF", "U+0FB0", "U+0FB1", "U+0FB2", "U+0FB3", "U+0FB4",
     "U+0FB5", "U+0FB6", "U+0FB7", "U+0FB8", "U+0FB9", "U+0FBA", "U+0FBB", "U+0FBC", "U+0FC6",
     "U+102D", "U+102E", "U+102F", "U+1030", "U+1032", "U+1033", "U+1034", "U+1035", "U+1036",
     "U+1037", "U+1039", "U+103A", "U+103D", "U+103E", "U+1058", "U+1059", "U+105E", "U+105F",
     "U+1060", "U+1071", "U+1072", "U+1073", "U+1074", "U+1082", "U+1085", "U+1086", "U+108D",
     "U+109D", "U+10FC", "U+135D", "U+135E", "U+135F", "U+1712", "U+1713", "U+1714", "U+1732",
     "U+1733", "U+1752", "U+1753", "U+1772", "U+1773", "U+17B4", "U+17B5", "U+17B7", "U+17B8",
     "U+17B9", "U+17BA", "U+17BB", "U+17BC", "U+17BD", "U+17C6", "U+17C9", "U+17CA", "U+17CB",
     "U+17CC", "U+17CD", "U+17CE", "U+17CF", "U+17D0", "U+17D1", "U+17D2", "U+17D3", "U+17D7",
     "U+17DD", "U+180B", "U+180C", "U+180D", "U+180E", "U+180F", "U+1843", "U+1885", "U+1886",
     "U+18A9", "U+1920", "U+1921", "U+1922", "U+1927", "U+1928", "U+1932", "U+1939", "U+193A",
     "U+193B", "U+1A17", "U+1A18", "U+1A1B", "U+1A56", "U+1A58", "U+1A59", "U+1A5A", "U+1A5B",
     "U+1A5C", "U+1A5D", "U+1A5E", "U+1A60", "U+1A62", "U+1A65", "U+1A66", "U+1A67", "U+1A68",
     "U+1A69", "U+1A6A", "U+1A6B", "U+1A6C", "U+1A73", "U+1A74", "U+1A75", "U+1A76", "U+1A77",
     "U+1A78", "U+1A79", "U+1A7A", "U+1A7B", "U+1A7C", "U+1A7F", "U+1AA7", "U+1AB0", "U+1AB1",
     "U+1AB2", "U+1AB3", "U+1AB4", "U+1AB5", "U+1AB6", "U+1AB7", "U+1AB8", "U+1AB9", "U+1ABA",
     "U+1ABB", "U+1ABC", "U+1ABD", "U+1ABE", "U+1ABF", "U+1AC0", "U+1AC1", "U+1AC2", "U+1AC3",
     "U+1AC4", "U+1AC5", "U+1AC6", "U+1AC7", "U+1AC8", "U+1AC9", "U+1ACA", "U+1ACB", "U+1ACC",
     "U+1ACD", "U+1ACE", "U+1B00", "U+1B01", "U+1B02", "U+1B03", "U+1B34", "U+1B36", "U+1B37",
     "U+1B38", "U+1B39", "U+1B3A", "U+1B3C", "U+1B42", "U+1B6B", "U+1B6C", "U+1B6D", "U+1B6E",
     "U+1B6F", "U+1B70", "U+1B71", "U+1B72", "U+1B73", "U+1B80", "U+1B81", "U+1BA2", "U+1BA3",
     "U+1BA4", "U+1BA5", "U+1BA8", "U+1BA9", "U+1BAB", "U+1BAC", "U+1BAD", "U+1BE6", "U+1BE8",
     "U+1BE9", "U+1BED", "U+1BEF", "U+1BF0", "U+1BF1", "U+1C2C", "U+1C2D", "U+1C2E", "U+1C2F",
     "U+1C30", "U+1C31", "U+1C32", "U+1C33", "U+1C36", "U+1C37", "U+1C78", "U+1C79", "U+1C7A",
     "U+1C7B", "U+1C7C", "U+1C7D", "U+1CD0", "U+1CD1", "U+1CD2", "U+1CD4", "U+1CD5", "U+1CD6",
     "U+1CD7", "U+1CD8", "U+1CD9", "U+1CDA", "U+1CDB", "U+1CDC", "U+1CDD", "U+1CDE", "U+1CDF",
     "U+1CE0", "U+1CE2", "U+1CE3", "U+1CE4", "U+1CE5", "U+1CE6", "U+1CE7", "U+1CE8", "U+1CED",
     "U+1CF4", "U+1CF8", "U+1CF9", "U+1D2C", "U+1D2D", "U+1D2E", "U+1D2F", "U+1D30", "U+1D31",
     "U+1D32", "U+1D33", "U+1D34", "U+1D35", "U+1D36", "U+1D37", "U+1D38", "U+1D39", "U+1D3A",
     "U+1D3B", "U+1D3C", "U+1D3D", "U+1D3E", "U+1D3F", "U+1D40", "U+1D41", "U+1D42", "U+1D43",
     "U+1D44", "U+1D45", "U+1D46", "U+1D47", "U+1D48", "U+1D49", "U+1D4A", "U+1D4B", "U+1D4C",
     "U+1D4D", "U+1D4E", "U+1D4F", "U+1D50", "U+1D51", "U+1D52", "U+1D53", "U+1D54", "U+1D55",
     "U+1D56", "U+1D57", "U+1D58", "U+1D59", "U+1D5A", "U+1D5B", "U+1D5C", "U+1D5D", "U+1D5E",
     "U+1D5F", "U+1D60", "U+1D61", "U+1D62", "U+1D63", "U+1D64", "U+1D65", "U+1D66", "U+1D67",
     "U+1D68", "U+1D69", "U+1D6A", "U+1D78", "U+1D9B", "U+1D9C", "U+1D9D", "U+1D9E", "U+1D9F",
     "U+1DA0", "U+1DA1", "U+1DA2", "U+1DA3", "U+1DA4", "U+1DA5", "U+1DA6", "U+1DA7", "U+1DA8",
     "U+1DA9", "U+1DAA", "U+1DAB", "U+1DAC", "U+1DAD", "U+1DAE", "U+1DAF", "U+1DB0", "U+1DB1",
     "U+1DB2", "U+1DB3", "U+1DB4", "U+1DB5", "U+1DB6", "U+1DB7", "U+1DB8", "U+1DB9", "U+1DBA",
     "U+1DBB", "U+1DBC", "U+1DBD", "U+1DBE", "U+1DBF", "U+1DC0", "U+1DC1", "U+1DC2", "U+1DC3",
     "U+1DC4", "U+1DC5", "U+1DC6", "U+1DC7", "U+1DC8", "U+1DC9", "U+1DCA", "U+1DCB", "U+1DCC",
     "U+1DCD", "U+1DCE", "U+1DCF", "U+1DD0", "U+1DD1", "U+1DD2", "U+1DD3", "U+1DD4", "U+1DD5",
     "U+1DD6", "U+1DD7", "U+1DD8", "U+1DD9", "U+1DDA", "U+1DDB", "U+1DDC", "U+1DDD", "U+1DDE",
     "U+1DDF", "U+1DE0", "U+1DE1", "U+1DE2", "U+1DE3", "U+1DE4", "U+1DE5", "U+1DE6", "U+1DE7",
     "U+1DE8", "U+1DE9", "U+1DEA", "U+1DEB", "U+1DEC", "U+1DED", "U+1DEE", "U+1DEF", "U+1DF0",
     "U+1DF1", "U+1DF2", "U+1DF3", "U+1DF4", "U+1DF5", "U+1DF6", "U+1DF7", "U+1DF8", "U+1DF9",
     "U+1DFA", "U+1DFB", "U+1DFC", "U+1DFD", "U+1DFE", "U+1DFF", "U+1FBD", "U+1FBF", "U+1FC0",
     "U+1FC1", "U+1FCD", "U+1FCE", "U+1FCF", "U+1FDD", "U+1FDE", "U+1FDF", "U+1FED", "U+1FEE",
     "U+1FEF", "U+1FFD", "U+1FFE", "U+200B", "U+200C", "U+200D", "U+200E", "U+200F", "U+2018",
     "U+2019", "U+2024", "U+2027", "U+202A", "U+202B", "U+202C", "U+202D", "U+202E", "U+2060",
     "U+2061", "U+2062", "U+2063", "U+2064", "U+2066", "U+2067", "U+2068", "U+2069", "U+206A",
     "U+206B", "U+206C", "U+206D", "U+206E", "U+206F", "U+2071", "U+207F", "U+2090", "U+2091",
     "U+2092", "U+2093", "U+2094", "U+2095", "U+2096", "U+2097", "U+2098", "U+2099", "U+209A",
     "U+209B", "U+209C", "U+20D0", "U+20D1", "U+20D2", "U+20D3", "U+20D4", "U+20D5", "U+20D6",
     "U+20D7", "U+20D8", "U+20D9", "U+20DA", "U+20DB", "U+20DC", "U+20DD", "U+20DE", "U+20DF",
     "U+20E0", "U+20E1", "U+20E2", "U+20E3", "U+20E4", "U+20E5", "U+20E6", "U+20E7", "U+20E8",
     "U+20E9", "U+20EA", "U+20EB", "U+20EC", "U+20ED", "U+20EE", "U+20EF", "U+20F0", "U+2C7C",
     "U+2C7D", "U+2CEF", "U+2CF0", "U+2CF1", "U+2D6F", "U+2D7F", "U+2DE0", "U+2DE1", "U+2DE2",
     "U+2DE3", "U+2DE4", "U+2DE5", "U+2DE6", "U+2DE7", "U+2DE8", "U+2DE9", "U+2DEA", "U+2DEB",
     "U+2DEC", "U+2DED", "U+2DEE", "U+2DEF", "U+2DF0", "U+2DF1", "U+2DF2", "U+2DF3", "U+2DF4",
     "U+2DF5", "U+2DF6", "U+2DF7", "U+2DF8", "U+2DF9", "U+2DFA", "U+2DFB", "U+2DFC", "U+2DFD",
     "U+2DFE", "U+2DFF", "U+2E2F" }

Cased ==
  UpperSet \cup LowerSet \cup
  {"U+00AA", "U+00B5", "U+00BA", "U+00C0", "U+00C1", "U+00C2", "U+00C3", "U+00C4", "U+00C5",
     "U+00C6", "U+00C7", "U+00C8", "U+00C9", "U+00CA", "U+00CB", "U+00CC", "U+00CD", "U+00CE",
     "U+00CF", "U+00D0", "U+00D1", "U+00D2", "U+00D3", "U+00D4", "U+00D5", "U+00D6", "U+00D8",
     "U+00D9", "U+00DA", "U+00DB", "U+00DC", "U+00DD", "U+00DE", "U+00DF", "U+00E0", "U+00E1",
     "U+00E2", "U+00E3", "U+00E4", "U+00E5", "U+00E6", "U+00E7", "U+00E8", "U+00E9", "U+00EA",
     "U+00EB", "U+00EC", "U+00ED", "U+00EE", "U+00EF", "U+00F0", "U+00F1", "U+00F2", "U+00F3",
     "U+00F4", "U+00F5", "U+00F6", "U+00F8", "U+00F9", "U+00FA", "U+00FB", "U+00FC", "U+00FD",
     "U+00FE", "U+00FF", "U+0100", "U+0101", "U+0102", "U+0103", "U+0104", "U+0105", "U+0106",
     "U+0107", "U+0108", "U+0109", "U+010A", "U+010B", "U+010C", "U+010D", "U+010E", "U+010F",
     "U+0110", "U+0111", "U+0112", "U+0113", "U+0114", "U+0115", "U+0116", "U+0117", "U+0118",
     "U+0119", "U+011A", "U+011B", "U+011C", "U+011D", "U+011E", "U+011F", "U+0120", "U+0121",
     "U+0122", "U+0123", "U+0124", "U+0125", "U+0126", "U+0127", "U+0128", "U+0129", "U+012A",
     "U+012B", "U+012C", "U+012D", "U+012E", "U+012F", "U+0130", "U+0131", "U+0132", "U+0133",
     "U+0134", "U+0135", "U+0136", "U+0137", "U+0138", "U+0139", "U+013A", "U+013B", "U+013C",
     "U+013D", "U+013E", "U+013F", "U+0140", "U+0141", "U+0142", "U+0143", "U+0144", "U+0145",
     "U+0146", "U+0147", "U+0148", "U+0149", "U+014A", "U+014B", "U+014C", "U+014D", "U+014E",
     "U+014F", "U+0150", "U+0151", "U+0152", "U+0153", "U+0154", "U+0155", "U+0156", "U+0157",
     "U+0158", "U+0159", "U+015A", "U+015B", "U+015C", "U+015D", "U+015E", "U+015F", "U+0160",
     "U+0161", "U+0162", "U+0163", "U+0164", "U+0165", "U+0166", "U+0167", "U+0168", "U+0169",
     "U+016A", "U+016B", "U+016C", "U+016D", "U+016E", "U+016F", "U+0170", "U+0171", "U+0172",
     "U+0173", "U+0174", "U+0175", "U+0176", "U+0177", "U+0178", "U+0179", "U+017A", "U+017B",
     "U+017C", "U+017D", "U+017E", "U+017F", "U+0180", "U+0181", "U+0182", "U+0183", "U+0184",
     "U+0185", "U+0186", "U+0187", "U+0188", "U+0189", "U+018A", "U+018B", "U+018C", "U+018D",
     "U+018E", "U+018F", "U+0190", "U+0191", "U+0192", "U+0193", "U+0194", "U+0195", "U+0196",
     "U+0197", "U+0198", "U+0199", "U+019A", "U+019B", "U+019C", "U+019D", "U+019E", "U+019F",
     "U+01A0", "U+01A1", "U+01A2", "U+01A3", "U+01A4", "U+01A5", "U+01A6", "U+01A7", "U+01A8",
     "U+01A9", "U+01AA", "U+01AB", "U+01AC", "U+01AD", "U+01AE", "U+01AF", "U+01B0", "U+01B1",
     "U+01B2", "U+01B3", "U+01B4", "U+01B5", "U+01B6", "U+01B7", "U+01B8", "U+01B9", "U+01BA",
     "U+01BC", "U+01BD", "U+01BE", "U+01BF", "U+01C4", "U+01C5", "U+01C6", "U+01C7", "U+01C8",
     "U+01C9", "U+01CA", "U+01CB", "U+01CC", "U+01CD", "U+01CE", "U+01CF", "U+01D0", "U+01D1",
     "U+01D2", "U+01D3", "U+01D4", "U+01D5", "U+01D6", "U+01D7", "U+01D8", "U+01D9", "U+01DA",
     "U+01DB", "U+01DC", "U+01DD", "U+01DE", "U+01DF", "U+01E0", "U+01E1", "U+01E2", "U+01E3",
     "U+01E4", "U+01E5", "U+01E6", "U+01E7", "U+01E8", "U+01E9", "U+01EA", "U+01EB", "U+01EC",
     "U+01ED", "U+01EE", "U+01EF", "U+01F0", "U+01F1", "U+01F2", "U+01F3", "U+01F4", "U+01F5",
     "U+01F6", "U+01F7", "U+01F8", "U+01F9", "U+01FA", "U+01FB", "U+01FC", "U+01FD", "U+01FE",
     "U+01FF", "U+0200", "U+0201", "U+0202", "U+0203", "U+0204", "U+0205", "U+0206", "U+0207",
     "U+0208", "U+0209", "U+020A", "U+020B", "U+020C", "U+020D", "U+020E", "U+020F", "U+0210",
     "U+0211", "U+0212", "U+0213", "U+0214", "U+0215", "U+0216", "U+0217", "U+0218", "U+0219",
     "U+021A", "U+021B", "U+021C", "U+021D", "U+021E", "U+021F", "U+0220", "U+0221", "U+0222",
     "U+0223", "U+0224", "U+0225", "U+0226", "U+0227", "U+0228", "U+0229", "U+022A", "U+022B",
     "U+022C", "U+022D", "U+022E", "U+022F", "U+0230", "U+0231", "U+0232", "U+0233", "U+0234",
     "U+0235", "U+0236", "U+0237", "U+0238", "U+0239", "U+023A", "U+023B", "U+023C", "U+023D",
     "U+023E", "U+023F", "U+0240", "U+0241", "U+0242", "U+0243", "U+0244", "U+0245", "U+0246",
     "U+0247", "U+0248", "U+0249", "U+024A", "U+024B", "U+024C", "U+024D", "U+024E", "U+024F",
     "U+0250", "U+0251", "U+0252", "U+0253", "U+0254", "U+0255", "U+0256", "U+0257", "U+0258",
     "U+0259", "U+025A", "U+025B", "U+025C", "U+025D", "U+025E", "U+025F", "U+0260", "U+0261",
     "U+0262", "U+0263", "U+0264", "U+0265", "U+0266", "U+0267", "U+0268", "U+0269", "U+026A",
     "U+026B", "U+026C", "U+026D", "U+026E", "U+026F", "U+0270", "U+0271", "U+0272", "U+0273",
     "U+0274", "U+0275", "U+0276", "U+0277", "U+0278", "U+0279", "U+027A", "U+027B", "U+027C",
     "U+027D", "U+027E", "U+027F", "U+0280", "U+0281", "U+0282", "U+0283", "U+0284", "U+0285",
     "U+0286", "U+0287", "U+0288", "U+0289", "U+028A", "U+028B", "U+028C", "U+028D", "U+028E",
     "U+028F", "U+0290", "U+0291", "U+0292", "U+0293", "U+0295", "U+0296", "U+0297", "U+0298",
     "U+0299", "U+029A", "U+029B", "U+029C", "U+029D", "U+029E", "U+029F", "U+02A0", "U+02A1",
     "U+02A2", "U+02A3", "U+02A4", "U+02A5", "U+02A6", "U+02A7", "U+02A8", "U+02A9", "U+02AA",
     "U+02AB", "U+02AC", "U+02AD", "U+02AE", "U+02AF", "U+0370", "U+0371", "U+0372", "U+0373",
     "U+0376", "U+0377", "U+037B", "U+037C", "U+037D", "U+037F", "U+0386", "U+0388", "U+0389",
     "U+038A", "U+038C", "U+038E", "U+038F", "U+0390", "U+0391", "U+0392", "U+0393", "U+0394",
     "U+0395", "U+0396", "U+0397", "U+0398", "U+0399", "U+039A", "U+039B", "U+039C", "U+039D",
     "U+039E", "U+039F", "U+03A0", "U+03A1", "U+03A3", "U+03A4", "U+03A5", "U+03A6", "U+03A7",
     "U+03A8", "U+03A9", "U+03AA", "U+03AB", "U+03AC", "U+03AD", "U+03AE", "U+03AF", "U+03B0",
     "U+03B1", "U+03B2", "U+03B3", "U+03B4", "U+03B5", "U+03B6", "U+03B7", "U+03B8", "U+03B9",
     "U+03BA", "U+03BB", "U+03BC", "U+03BD", "U+03BE", "U+03BF", "U+03C0", "U+03C1", "U+03C2",
     "U+03C3", "U+03C4", "U+03C5", "U+03C6", "U+03C7", "U+03C8", "U+03C9", "U+03CA", "U+03CB",
     "U+03CC", "U+03CD", "U+03CE", "U+03CF", "U+03D0", "U+03D1", "U+03D2", "U+03D3", "U+03D4",
     "U+03D5", "U+03D6", "U+03D7", "U+03D8", "U+03D9", "U+03DA", "U+03DB", "U+03DC", "U+03DD",
     "U+03DE", "U+03DF", "U+03E0", "U+03E1", "U+03E2", "U+03E3", "U+03E4", "U+03E5", "U+03E6",
     "U+03E7", "U+03E8", "U+03E9", "U+03EA", "U+03EB", "U+03EC", "U+03ED", "U+03EE", "U+03EF",
     "U+03F0", "U+03F1", "U+03F2", "U+03F3", "U+03F4", "U+03F5", "U+03F7", "U+03F8", "U+03F9",
     "U+03FA", "U+03FB", "U+03FC", "U+03FD", "U+03FE", "U+03FF", "U+0400", "U+0401", "U+0402",
     "U+0403", "U+0404", "U+0405", "U+0406", "U+0407", "U+0408", "U+0409", "U+040A", "U+040B",
     "U+040C", "U+040D", "U+040E", "U+040F", "U+0410", "U+0411", "U+0412", "U+0413", "U+0414",
     "U+0415", "U+0416", "U+0417", "U+0418", "U+0419", "U+041A", "U+041B", "U+041C", "U+041D",
     "U+041E", "U+041F", "U+0420", "U+0421", "U+0422", "U+0423", "U+0424", "U+0425", "U+0426",
     "U+0427", "U+0428", "U+0429", "U+042A", "U+042B", "U+042C", "U+042D", "U+042E", "U+042F",
     "U+0430", "U+0431", "U+0432", "U+0433", "U+0434", "U+0435", "U+0436", "U+0437", "U+0438",
     "U+0439", "U+043A", "U+043B", "U+043C", "U+043D", "U+043E", "U+043F", "U+0440", "U+0441",
     "U+0442", "U+0443", "U+0444", "U+0445", "U+0446", "U+0447", "U+0448", "U+0449", "U+044A",
     "U+044B", "U+044C", "U+044D", "U+044E", "U+044F", "U+0450", "U+0451", "U+0452", "U+0453",
     "U+0454", "U+0455", "U+0456", "U+0457", "U+0458", "U+0459", "U+045A", "U+045B", "U+045C",
     "U+045D", "U+045E", "U+045F", "U+0460", "U+0461", "U+0462", "U+0463", "U+0464", "U+0465",
     "U+0466", "U+0467", "U+0468", "U+0469", "U+046A", "U+046B", "U+046C", "U+046D", "U+046E",
     "U+046F", "U+0470", "U+0471", "U+0472", "U+0473", "U+0474", "U+0475", "U+0476", "U+0477",
     "U+0478", "U+0479", "U+047A", "U+047B", "U+047C", "U+047D", "U+047E", "U+047F", "U+0480",
     "U+0481", "U+048A", "U+048B", "U+048C", "U+048D", "U+048E", "U+048F", "U+0490", "U+0491",
     "U+0492", "U+0493", "U+0494", "U+0495", "U+0496", "U+0497", "U+0498", "U+0499", "U+049A",
     "U+049B", "U+049C", "U+049D", "U+049E", "U+049F", "U+04A0", "U+04A1", "U+04A2", "U+04A3",
     "U+04A4", "U+04A5", "U+04A6", "U+04A7", "U+04A8", "U+04A9", "U+04AA", "U+04AB", "U+04AC",
     "U+04AD", "U+04AE", "U+04AF", "U+04B0", "U+04B1", "U+04B2", "U+04B3", "U+04B4", "U+04B5",
     "U+04B6", "U+04B7", "U+04B8", "U+04B9", "U+04BA", "U+04BB", "U+04BC", "U+04BD", "U+04BE",
     "U+04BF", "U+04C0", "U+04C1", "U+04C2", "U+04C3", "U+04C4", "U+04C5", "U+04C6", "U+04C7",
     "U+04C8", "U+04C9", "U+04CA", "U+04CB", "U+04CC", "U+04CD", "U+04CE", "U+04CF", "U+04D0",
     "U+04D1", "U+04D2", "U+04D3", "U+04D4", "U+04D5", "U+04D6", "U+04D7", "U+04D8", "U+04D9",
     "U+04DA", "U+04DB", "U+04DC", "U+04DD", "U+04DE", "U+04DF", "U+04E0", "U+04E1", "U+04E2",
     "U+04E3", "U+04E4", "U+04E5", "U+04E6", "U+04E7", "U+04E8", "U+04E9", "U+04EA", "U+04EB",
     "U+04EC", "U+04ED", "U+04EE", "U+04EF", "U+04F0", "U+04F1", "U+04F2", "U+04F3", "U+04F4",
     "U+04F5", "U+04F6", "U+04F7", "U+04F8", "U+04F9", "U+04FA", "U+04FB", "U+04FC", "U+04FD",
     "U+04FE", "U+04FF", "U+0500", "U+0501", "U+0502", "U+0503", "U+0504", "U+0505", "U+0506",
     "U+0507", "U+0508", "U+0509", "U+050A", "U+050B", "U+050C", "U+050D", "U+050E", "U+050F",
     "U+0510", "U+0511", "U+0512", "U+0513", "U+0514", "U+0515", "U+0516", "U+0517", "U+0518",
     "U+0519", "U+051A", "U+051B", "U+051C", "U+051D", "U+051E", "U+051F", "U+0520", "U+0521",
     "U+0522", "U+0523", "U+0524", "U+0525", "U+0526", "U+0527", "U+0528", "U+0529", "U+052A",
     "U+052B", "U+052C", "U+052D", "U+052E", "U+052F", "U+0531", "U+0532", "U+0533", "U+0534",
     "U+0535", "U+0536", "U+0537", "U+0538", "U+0539", "U+053A", "U+053B", "U+053C", "U+053D",
     "U+053E", "U+053F", "U+0540", "U+0541", "U+0542", "U+0543", "U+0544", "U+0545", "U+0546",
     "U+0547", "U+0548", "U+0549", "U+054A", "U+054B", "U+054C", "U+054D", "U+054E", "U+054F",
     "U+0550", "U+0551", "U+0552", "U+0553", "U+0554", "U+0555", "U+0556", "U+0560", "U+0561",
     "U+0562", "U+0563", "U+0564", "U+0565", "U+0566", "U+0567", "U+0568", "U+0569", "U+056A",
     "U+056B", "U+056C", "U+056D", "U+056E", "U+056F", "U+0570", "U+0571", "U+0572", "U+0573",
     "U+0574", "U+0575", "U+0576", "U+0577", "U+0578", "U+0579", "U+057A", "U+057B", "U+057C",
     "U+057D", "U+057E", "U+057F", "U+0580", "U+0581", "U+0582", "U+0583", "U+0584", "U+0585",
     "U+0586", "U+0587", "U+0588", "U+10A0", "U+10A1", "U+10A2", "U+10A3", "U+10A4", "U+10A5",
     "U+10A6", "U+10A7", "U+10A8", "U+10A9", "U+10AA", "U+10AB", "U+10AC", "U+10AD", "U+10AE",
     "U+10AF", "U+10B0", "U+10B1", "U+10B2", "U+10B3", "U+10B4", "U+10B5", "U+10B6", "U+10B7",
     "U+10B8", "U+10B9", "U+10BA", "U+10BB", "U+10BC", "U+10BD", "U+10BE", "U+10BF", "U+10C0",
     "U+10C1", "U+10C2", "U+10C3", "U+10C4", "U+10C5", "U+10C7", "U+10CD", "U+10D0", "U+10D1",
     "U+10D2", "U+10D3", "U+10D4", "U+10D5", "U+10D6", "U+10D7", "U+10D8", "U+10D9", "U+10DA",
     "U+10DB", "U+10DC", "U+10DD", "U+10DE", "U+10DF", "U+10E0", "U+10E1", "U+10E2", "U+10E3",
     "U+10E4", "U+10E5", "U+10E6", "U+10E7", "U+10E8", "U+10E9", "U+10EA", "U+10EB", "U+10EC",
     "U+10ED", "U+10EE", "U+10EF", "U+10F0", "U+10F1", "U+10F2", "U+10F3", "U+10F4", "U+10F5",
     "U+10F6", "U+10F7", "U+10F8", "U+10F9", "U+10FA", "U+10FD", "U+10FE", "U+10FF", "U+13A0",
     "U+13A1", "U+13A2", "U+13A3", "U+13A4", "U+13A5", "U+13A6", "U+13A7", "U+13A8", "U+13A9",
     "U+13AA", "U+13AB", "U+13AC", "U+13AD", "U+13AE", "U+13AF", "U+13B0", "U+13B1", "U+13B2",
     "U+13B3", "U+13B4", "U+13B5", "U+13B6", "U+13B7", "U+13B8", "U+13B9", "U+13BA", "U+13BB",
     "U+13BC", "U+13BD", "U+13BE", "U+13BF", "U+13C0", "U+13C1", "U+13C2", "U+13C3", "U+13C4",
     "U+13C5", "U+13C6", "U+13C7", "U+13C8", "U+13C9", "U+13CA", "U+13CB", "U+13CC", "U+13CD",
     "U+13CE", "U+13CF", "U+13D0", "U+13D1", "U+13D2", "U+13D3", "U+13D4", "U+13D5", "U+13D6",
     "U+13D7", "U+13D8", "U+13D9", "U+13DA", "U+13DB", "U+13DC", "U+13DD", "U+13DE", "U+13DF",
     "U+13E0", "U+13E1", "U+13E2", "U+13E3", "U+13E4", "U+13E5", "U+13E6", "U+13E7", "U+13E8",
     "U+13E9", "U+13EA", "U+13EB", "U+13EC", "U+13ED", "U+13EE", "U+13EF", "U+13F0", "U+13F1",
     "U+13F2", "U+13F3", "U+13F4", "U+13F5", "U+13F8", "U+13F9", "U+13FA", "U+13FB", "U+13FC",
     "U+13FD", "U+1C80", "U+1C81", "U+1C82", "U+1C83", "U+1C84", "U+1C85", "U+1C86", "U+1C87",
     "U+1C88", "U+1C90", "U+1C91", "U+1C92", "U+1C93", "U+1C94", "U+1C95", "U+1C96", "U+1C97",
     "U+1C98", "U+1C99", "U+1C9A", "U+1C9B", "U+1C9C", "U+1C9D", "U+1C9E", "U+1C9F", "U+1CA0",
     "U+1CA1", "U+1CA2", "U+1CA3", "U+1CA4", "U+1CA5", "U+1CA6", "U+1CA7", "U+1CA8", "U+1CA9",
     "U+1CAA", "U+1CAB", "U+1CAC", "U+1CAD", "U+1CAE", "U+1CAF", "U+1CB0", "U+1CB1", "U+1CB2",
     "U+1CB3", "U+1CB4", "U+1CB5", "U+1CB6", "U+1CB7", "U+1CB8", "U+1CB9", "U+1CBA", "U+1CBD",
     "U+1CBE", "U+1CBF", "U+1D00", "U+1D01", "U+1D02", "U+1D03", "U+1D04", "U+1D05", "U+1D06",
     "U+1D07", "U+1D08", "U+1D09", "U+1D0A", "U+1D0B", "U+1D0C", "U+1D0D", "U+1D0E", "U+1D0F",
     "U+1D10", "U+1D11", "U+1D12", "U+1D13", "U+1D14", "U+1D15", "U+1D16", "U+1D17", "U+1D18",
     "U+1D19", "U+1D1A", "U+1D1B", "U+1D1C", "U+1D1D", "U+1D1E", "U+1D1F", "U+1D20", "U+1D21",
     "U+1D22", "U+1D23", "U+1D24", "U+1D25", "U+1D26", "U+1D27", "U+1D28", "U+1D29", "U+1D2A",
     "U+1D2B", "U+1D6B", "U+1D6C", "U+1D6D", "U+1D6E", "U+1D6F", "U+1D70", "U+1D71", "U+1D72",
     "U+1D73", "U+1D74", "U+1D75", "U+1D76", "U+1D77", "U+1D79", "U+1D7A", "U+1D7B", "U+1D7C",
     "U+1D7D", "U+1D7E", "U+1D7F", "U+1D80", "U+1D81", "U+1D82", "U+1D83", "U+1D84", "U+1D85",
     "U+1D86", "U+1D87", "U+1D88", "U+1D89", "U+1D8A", "U+1D8B", "U+1D8C", "U+1D8D", "U+1D8E",
     "U+1D8F", "U+1D90", "U+1D91", "U+1D92", "U+1D93", "U+1D94", "U+1D95", "U+1D96", "U+1D97",
     "U+1D98", "U+1D99", "U+1D9A", "U+1E00", "U+1E01", "U+1E02", "U+1E03", "U+1E04", "U+1E05",
     "U+1E06", "U+1E07", "U+1E08", "U+1E09", "U+1E0A", "U+1E0B", "U+1E0C", "U+1E0D", "U+1E0E",
     "U+1E0F", "U+1E10", "U+1E11", "U+1E12", "U+1E13", "U+1E14", "U+1E15", "U+1E16", "U+1E17",
     "U+1E18", "U+1E19", "U+1E1A", "U+1E1B", "U+1E1C", "U+1E1D", "U+1E1E", "U+1E1F", "U+1E20",
     "U+1E21", "U+1E22", "U+1E23", "U+1E24", "U+1E25", "U+1E26", "U+1E27", "U+1E28", "U+1E29",
     "U+1E2A", "U+1E2B", "U+1E2C", "U+1E2D", "U+1E2E", "U+1E2F", "U+1E30", "U+1E31", "U+1E32",
     "U+1E33", "U+1E34", "U+1E35", "U+1E36", "U+1E37", "U+1E38", "U+1E39", "U+1E3A", "U+1E3B",
     "U+1E3C", "U+1E3D", "U+1E3E", "U+1E3F", "U+1E40", "U+1E41", "U+1E42", "U+1E43", "U+1E44",
     "U+1E45", "U+1E46", "U+1E47", "U+1E48", "U+1E49", "U+1E4A", "U+1E4B", "U+1E4C", "U+1E4D",
     "U+1E4E", "U+1E4F", "U+1E50", "U+1E51", "U+1E52", "U+1E53", "U+1E54", "U+1E55", "U+1E56",
     "U+1E57", "U+1E58", "U+1E59", "U+1E5A", "U+1E5B", "U+1E5C", "U+1E5D", "U+1E5E", "U+1E5F",
     "U+1E60", "U+1E61", "U+1E62", "U+1E63", "U+1E64", "U+1E65", "U+1E66", "U+1E67", "U+1E68",
     "U+1E69", "U+1E6A", "U+1E6B", "U+1E6C", "U+1E6D", "U+1E6E", "U+1E6F", "U+1E70", "U+1E71",
     "U+1E72", "U+1E73", "U+1E74", "U+1E75", "U+1E76", "U+1E77", "U+1E78", "U+1E79", "U+1E7A",
     "U+1E7B", "U+1E7C", "U+1E7D", "U+1E7E", "U+1E7F", "U+1E80", "U+1E81", "U+1E82", "U+1E83",
     "U+1E84", "U+1E85", "U+1E86", "U+1E87", "U+1E88", "U+1E89", "U+1E8A", "U+1E8B", "U+1E8C",
     "U+1E8D", "U+1E8E", "U+1E8F", "U+1E90", "U+1E91", "U+1E92", "U+1E93", "U+1E94", "U+1E95",
     "U+1E96", "U+1E97", "U+1E98", "U+1E99", "U+1E9A", "U+1E9B", "U+1E9C", "U+1E9D", "U+1E9E",
     "U+1E9F", "U+1EA0", "U+1EA1", "U+1EA2", "U+1EA3", "U+1EA4", "U+1EA5", "U+1EA6", "U+1EA7",
     "U+1EA8", "U+1EA9", "U+1EAA", "U+1EAB", "U+1EAC", "U+1EAD", "U+1EAE", "U+1EAF", "U+1EB0",
     "U+1EB1", "U+1EB2", "U+1EB3", "U+1EB4", "U+1EB5", "U+1EB6", "U+1EB7", "U+1EB8", "U+1EB9",
     "U+1EBA", "U+1EBB", "U+1EBC", "U+1EBD", "U+1EBE", "U+1EBF", "U+1EC0", "U+1EC1", "U+1EC2",
     "U+1EC3", "U+1EC4", "U+1EC5", "U+1EC6", "U+1EC7", "U+1EC8", "U+1EC9", "U+1ECA", "U+1ECB",
     "U+1ECC", "U+1ECD", "U+1ECE", "U+1ECF", "U+1ED0", "U+1ED1", "U+1ED2", "U+1ED3", "U+1ED4",
     "U+1ED5", "U+1ED6", "U+1ED7", "U+1ED8", "U+1ED9", "U+1EDA", "U+1EDB", "U+1EDC", "U+1EDD",
     "U+1EDE", "U+1EDF", "U+1EE0", "U+1EE1", "U+1EE2", "U+1EE3", "U+1EE4", "U+1EE5", "U+1EE6",
     "U+1EE7", "U+1EE8", "U+1EE9", "U+1EEA", "U+1EEB", "U+1EEC", "U+1EED", "U+1EEE", "U+1EEF",
     "U+1EF0", "U+1EF1", "U+1EF2", "U+1EF3", "U+1EF4", "U+1EF5", "U+1EF6", "U+1EF7", "U+1EF8",
     "U+1EF9", "U+1EFA", "U+1EFB", "U+1EFC", "U+1EFD", "U+1EFE", "U+1EFF", "U+1F00", "U+1F01",
     "U+1F02", "U+1F03", "U+1F04", "U+1F05", "U+1F06", "U+1F07", "U+1F08", "U+1F09", "U+1F0A",
     "U+1F0B", "U+1F0C", "U+1F0D", "U+1F0E", "U+1F0F", "U+1F10", "U+1F11", "U+1F12", "U+1F13",
     "U+1F14", "U+1F15", "U+1F18", "U+1F19", "U+1F1A", "U+1F1B", "U+1F1C", "U+1F1D", "U+1F20",
     "U+1F21", "U+1F22", "U+1F23", "U+1F24", "U+1F25", "U+1F26", "U+1F27", "U+1F28", "U+1F29",
     "U+1F2A", "U+1F2B", "U+1F2C", "U+1F2D", "U+1F2E", "U+1F2F", "U+1F30", "U+1F31", "U+1F32",
     "U+1F33", "U+1F34", "U+1F35", "U+1F36", "U+1F37", "U+1F38", "U+1F39", "U+1F3A", "U+1F3B",
     "U+1F3C", "U+1F3D", "U+1F3E", "U+1F3F", "U+1F40", "U+1F41", "U+1F42", "U+1F43", "U+1F44",
     "U+1F45", "U+1F48", "U+1F49", "U+1F4A", "U+1F4B", "U+1F4C", "U+1F4D", "U+1F50", "U+1F51",
     "U+1F52", "U+1F53", "U+1F54", "U+1F55", "U+1F56", "U+1F57", "U+1F59", "U+1F5B", "U+1F5D",
     "U+1F5F", "U+1F60", "U+1F61", "U+1F62", "U+1F63", "U+1F64", "U+1F65", "U+1F66", "U+1F67",
     "U+1F68", "U+1F69", "U+1F6A", "U+1F6B", "U+1F6C", "U+1F6D", "U+1F6E", "U+1F6F", "U+1F70",
     "U+1F71", "U+1F72", "U+1F73", "U+1F74", "U+1F75", "U+1F76", "U+1F77", "U+1F78", "U+1F79",
     "U+1F7A", "U+1F7B", "U+1F7C", "U+1F7D", "U+1F80", "U+1F81", "U+1F82", "U+1F83", "U+1F84",
     "U+1F85", "U+1F86", "U+1F87", "U+1F88", "U+1F89", "U+1F8A", "U+1F8B", "U+1F8C", "U+1F8D",
     "U+1F8E", "U+1F8F", "U+1F90", "U+1F91", "U+1F92", "U+1F93", "U+1F94", "U+1F95", "U+1F96",
     "U+1F97", "U+1F98", "U+1F99", "U+1F9A", "U+1F9B", "U+1F9C", "U+1F9D", "U+1F9E", "U+1F9F",
     "U+1FA0", "U+1FA1", "U+1FA2", "U+1FA3", "U+1FA4", "U+1FA5", "U+1FA6", "U+1FA7", "U+1FA8",
     "U+1FA9", "U+1FAA", "U+1FAB", "U+1FAC", "U+1FAD", "U+1FAE", "U+1FAF", "U+1FB0", "U+1FB1",
     "U+1FB2", "U+1FB3", "U+1FB4", "U+1FB6", "U+1FB7", "U+1FB8", "U+1FB9", "U+1FBA", "U+1FBB",
     "U+1FBC", "U+1FBE", "U+1FC2", "U+1FC3", "U+1FC4", "U+1FC6", "U+1FC7", "U+1FC8", "U+1FC9",
     "U+1FCA", "U+1FCB", "U+1FCC", "U+1FD0", "U+1FD1", "U+1FD2", "U+1FD3", "U+1FD6", "U+1FD7",
     "U+1FD8", "U+1FD9", "U+1FDA", "U+1FDB", "U+1FE0", "U+1FE1", "U+1FE2", "U+1FE3", "U+1FE4",
     "U+1FE5", "U+1FE6", "U+1FE7", "U+1FE8", "U+1FE9", "U+1FEA", "U+1FEB", "U+1FEC", "U+1FF2",
     "U+1FF3", "U+1FF4", "U+1FF6", "U+1FF7", "U+1FF8", "U+1FF9", "U+1FFA", "U+1FFB", "U+1FFC",
     "U+2102", "U+2107", "U+210A", "U+210B", "U+210C", "U+210D", "U+210E", "U+210F", "U+2110",
     "U+2111", "U+2112", "U+2113", "U+2115", "U+2119", "U+211A", "U+211B", "U+211C", "U+211D",
     "U+2124", "U+2126", "U+2128", "U+212A", "U+212B", "U+212C", "U+212D", "U+212F", "U+2130",
     "U+2131", "U+2132", "U+2133", "U+2134", "U+2139", "U+213C", "U+213D", "U+213E", "U+213F",
     "U+2145", "U+2146", "U+2147", "U+2148", "U+2149", "U+214E", "U+2160", "U+2161", "U+2162",
     "U+2163", "U+2164", "U+2165", "U+2166", "U+2167", "U+2168", "U+2169", "U+216A", "U+216B",
     "U+216C", "U+216D", "U+216E", "U+216F", "U+2170", "U+2171", "U+2172", "U+2173", "U+2174",
     "U+2175", "U+2176", "U+2177", "U+2178", "U+2179", "U+217A", "U+217B", "U+217C", "U+217D",
     "U+217E", "U+217F", "U+2183", "U+2184", "U+24B6", "U+24B7", "U+24B8", "U+24B9", "U+24BA",
     "U+24BB", "U+24BC", "U+24BD", "U+24BE", "U+24BF", "U+24C0", "U+24C1", "U+24C2", "U+24C3",
     "U+24C4", "U+24C5", "U+24C6", "U+24C7", "U+24C8", "U+24C9", "U+24CA", "U+24CB", "U+24CC",
     "U+24CD", "U+24CE", "U+24CF", "U+24D0", "U+24D1", "U+24D2", "U+24D3", "U+24D4", "U+24D5",
     "U+24D6", "U+24D7", "U+24D8", "U+24D9", "U+24DA", "U+24DB", "U+24DC", "U+24DD", "U+24DE",
     "U+24DF", "U+24E0", "U+24E1", "U+24E2", "U+24E3", "U+24E4", "U+24E5", "U+24E6", "U+24E7",
     "U+24E8", "U+24E9", "U+2C00", "U+2C01", "U+2C02", "U+2C03", "U+2C04", "U+2C05", "U+2C06",
     "U+2C07", "U+2C08", "U+2C09", "U+2C0A", "U+2C0B", "U+2C0C", "U+2C0D", "U+2C0E", "U+2C0F",
     "U+2C10", "U+2C11", "U+2C12", "U+2C13", "U+2C14", "U+2C15", "U+2C16", "U+2C17", "U+2C18",
     "U+2C19", "U+2C1A", "U+2C1B", "U+2C1C", "U+2C1D", "U+2C1E", "U+2C1F", "U+2C20", "U+2C21",
     "U+2C22", "U+2C23", "U+2C24", "U+2C25", "U+2C26", "U+2C27", "U+2C28", "U+2C29", "U+2C2A",
     "U+2C2B", "U+2C2C", "U+2C2D", "U+2C2E", "U+2C2F", "U+2C30", "U+2C31", "U+2C32", "U+2C33",
     "U+2C34", "U+2C35", "U+2C36", "U+2C37", "U+2C38", "U+2C39", "U+2C3A", "U+2C3B", "U+2C3C",
     "U+2C3D", "U+2C3E", "U+2C3F", "U+2C40", "U+2C41", "U+2C42", "U+2C43", "U+2C44", "U+2C45",
     "U+2C46", "U+2C47", "U+2C48", "U+2C49", "U+2C4A", "U+2C4B", "U+2C4C", "U+2C4D", "U+2C4E",
     "U+2C4F", "U+2C50", "U+2C51", "U+2C52", "U+2C53", "U+2C54", "U+2C55", "U+2C56", "U+2C57",
     "U+2C58", "U+2C59", "U+2C5A", "U+2C5B", "U+2C5C", "U+2C5D", "U+2C5E", "U+2C5F", "U+2C60",
     "U+2C61", "U+2C62", "U+2C63", "U+2C64", "U+2C65", "U+2C66", "U+2C67", "U+2C68", "U+2C69",
     "U+2C6A", "U+2C6B", "U+2C6C", "U+2C6D", "U+2C6E", "U+2C6F", "U+2C70", "U+2C71", "U+2C72",
     "U+2C73", "U+2C74", "U+2C75", "U+2C76", "U+2C77", "U+2C78", "U+2C79", "U+2C7A", "U+2C7B",
     "U+2C7E", "U+2C7F", "U+2C80", "U+2C81", "U+2C82", "U+2C83", "U+2C84", "U+2C85", "U+2C86",
     "U+2C87", "U+2C88", "U+2C89", "U+2C8A", "U+2C8B", "U+2C8C", "U+2C8D", "U+2C8E", "U+2C8F",
     "U+2C90", "U+2C91", "U+2C92", "U+2C93", "U+2C94", "U+2C95", "U+2C96", "U+2C97", "U+2C98",
     "U+2C99", "U+2C9A", "U+2C9B", "U+2C9C", "U+2C9D", "U+2C9E", "U+2C9F", "U+2CA0", "U+2CA1",
     "U+2CA2", "U+2CA3", "U+2CA4", "U+2CA5", "U+2CA6", "U+2CA7", "U+2CA8", "U+2CA9", "U+2CAA",
     "U+2CAB", "U+2CAC", "U+2CAD", "U+2CAE", "U+2CAF", "U+2CB0", "U+2CB1", "U+2CB2", "U+2CB3",
     "U+2CB4", "U+2CB5", "U+2CB6", "U+2CB7", "U+2CB8", "U+2CB9", "U+2CBA", "U+2CBB", "U+2CBC",
     "U+2CBD", "U+2CBE", "U+2CBF", "U+2CC0", "U+2CC1", "U+2CC2", "U+2CC3", "U+2CC4", "U+2CC5",
     "U+2CC6", "U+2CC7", "U+2CC8", "U+2CC9", "U+2CCA", "U+2CCB", "U+2CCC", "U+2CCD", "U+2CCE",
     "U+2CCF", "U+2CD0", "U+2CD1", "U+2CD2", "U+2CD3", "U+2CD4", "U+2CD5", "U+2CD6", "U+2CD7",
     "U+2CD8", "U+2CD9", "U+2CDA", "U+2CDB", "U+2CDC", "U+2CDD", "U+2CDE", "U+2CDF", "U+2CE0",
     "U+2CE1", "U+2CE2", "U+2CE3", "U+2CE4", "U+2CEB", "U+2CEC", "U+2CED", "U+2CEE", "U+2CF2",
     "U+2CF3", "U+2D00", "U+2D01", "U+2D02", "U+2D03", "U+2D04", "U+2D05", "U+2D06", "U+2D07",
     "U+2D08", "U+2D09", "U+2D0A", "U+2D0B", "U+2D0C", "U+2D0D", "U+2D0E", "U+2D0F", "U+2D10",
     "U+2D11", "U+2D12", "U+2D13", "U+2D14", "U+2D15", "U+2D16", "U+2D17", "U+2D18", "U+2D19",
     "U+2D1A", "U+2D1B", "U+2D1C", "U+2D1D", "U+2D1E", "U+2D1F", "U+2D20", "U+2D21", "U+2D22",
     "U+2D23", "U+2D24", "U+2D25", "U+2D27", "U+2D2D" }

\* U+03A3, GREEK CAPITAL LETTER SIGMA, lowers to U+03C2 at the end of a
\* word and to U+03C3 elsewhere
CapitalSigma == "U+03A3"

\* whether the sigma at place i of s ends a word: a cased letter stands
\* before it and none after it, the case-ignorable characters passed over
FinalSigma(s, i) ==
  LET before == {j \in 1..(i - 1) : s[j] \notin CaseIgnorable}
      after  == {j \in (i + 1)..Len(s) : s[j] \notin CaseIgnorable}
  IN  /\ before # {}
      /\ s[CHOOSE j \in before : \A k \in before : k <= j] \in Cased
      /\ \/ after = {}
         \/ s[CHOOSE j \in after : \A k \in after : j <= k] \notin Cased

\* str.lower() of the character at place i of s
LowerCharAt(s, i) ==
  IF s[i] = CapitalSigma
    THEN IF FinalSigma(s, i) THEN "U+03C2" ELSE "U+03C3"
    ELSE LowerChar(s[i])

\* The one character whose lowercase is two characters: U+0130, LATIN
\* CAPITAL LETTER I WITH DOT ABOVE, lowers to 'i' followed by U+0307,
\* COMBINING DOT ABOVE.  Each of the two is one element of a text.
DottedI == "U+0130"

CombiningDot == "U+0307"

\* the places of the result of str.lower() where a U+0307 stands, for the
\* places sp of s where a U+0130 stands
ExtraPlaces(sp) == {k + Cardinality({h \in sp : h <= k}) : k \in sp}

\* str.lower() of a text with U+0130 at the places sp
LowerLonger(s, sp, extra) ==
  [j \in 1..(Len(s) + Cardinality(sp)) |->
     IF j \in extra THEN CombiningDot
     ELSE IF (j - Cardinality({x \in extra : x < j})) \in sp THEN "i"
     ELSE LowerCharAt(s, j - Cardinality({x \in extra : x < j}))]

LowerAt(s, sp) ==
  CHOOSE r \in {LowerLonger(s, sp, extra) : extra \in {ExtraPlaces(sp)}} : TRUE

\* str.lower(): the result is longer than s when s holds U+0130
Lower(s) ==
  IF \A i \in 1..Len(s) : s[i] # DottedI
    THEN [i \in 1..Len(s) |-> LowerCharAt(s, i)]
    ELSE CHOOSE r \in {LowerAt(s, sp) : sp \in {{k \in 1..Len(s) : s[k] = DottedI}}} : TRUE

\* s[a:b] of Python for 0 <= a, 0 <= b (0-based, end exclusive, clipped)
Slice(s, a, b) ==
  LET e == IF b < Len(s) THEN b ELSE Len(s)
  IN  IF a >= e THEN << >> ELSE SubSeq(s, a + 1, e)

\* `sub in s`
Contains(sub, s) ==
  \E i \in 0..(Len(s) - Len(sub)) : SubSeq(s, i + 1, i + Len(sub)) = sub

\* s.endswith(suffix)
EndsWith(s, suffix) ==
  /\ Len(suffix) <= Len(s)
  /\ SubSeq(s, Len(s) - Len(suffix) + 1, Len(s)) = suffix

\* s.startswith(prefix)
StartsWith(s, prefix) ==
  /\ Len(prefix) <= Len(s)
  /\ SubSeq(s, 1, Len(prefix)) = prefix

\* the least element of a non-empty set of integers
Min(S) == CHOOSE x \in S : \A y \in S : x <= y

\* the number of consecutive characters of s from position i (1-based) on
\* that are in class, counted up to max
RunLen(s, i, class, max) ==
  LET stops == {j \in i..Len(s) : s[j] \notin class}
      n == IF i > Len(s) THEN 0
           ELSE IF stops = {} THEN Len(s) + 1 - i
           ELSE Min(stops) - i
  IN  IF n > max THEN max ELSE n

\* the character of s at position i, "" past the end
At(s, i) == IF i >= 1 /\ i <= Len(s) THEN s[i] ELSE ""

\* the index of the first occurrence of c in s, 0 when there is none
IndexOf(s, c, i) ==
  LET hits == {j \in i..Len(s) : s[j] = c}
  IN  IF hits = {} THEN 0 ELSE Min(hits)

Range(s) == {s[i] : i \in 1..Len(s)}

\* a local variable: body of the value v, which is computed once
Let(v, body(_)) == body(v)

\* Python's None; a string is a sequence of single characters, so no string
\* equals it
None == << "None" >>

\* every enumeration of the finite set S without repetition
Orderings(S) ==
  {s \in [1..Cardinality(S) -> S] : \A i, j \in 1..Cardinality(S) : i # j => s[i] # s[j]}

(***************************************************************************)
(* Entity extraction (GraphRAGIndexer._extract_entities).                  *)
(***************************************************************************)
\* the end (1-based, inclusive) of a match of
\*   10\.\d{4,9}/[-._;()/:A-Za-z0-9]+
\* that starts at position i of text, 0 when there is none
DoiMatchEnd(text, i) ==
  LET d == RunLen(text, i + 3, Digits, 10)
      t == RunLen(text, i + 4 + d, DoiTailChars, Len(text))
  IN  IF /\ At(text, i) = "1"
         /\ At(text, i + 1) = "0"
         /\ At(text, i + 2) = "."
         /\ d >= 4
         /\ d <= 9
         /\ At(text, i + 3 + d) = "/"
         /\ t >= 1
        THEN i + 3 + d + t
        ELSE 0

\* the end of a match of \d{4}\.\d{4,5}(?:v\d+)? starting at i, 0 for none
ArxivMatchEnd(text, i) ==
  LET d == RunLen(text, i + 5, Digits, 5)
      e == i + 4 + d
      v == RunLen(text, e + 2, Digits, Len(text))
  IN  IF /\ RunLen(text, i, Digits, 4) = 4
         /\ At(text, i + 4) = "."
         /\ d >= 4
        THEN IF At(text, e + 1) = "v" /\ v >= 1 THEN e + 1 + v ELSE e
        ELSE 0

\* the end of a match of \b[A-Z][a-z]+ [A-Z][a-z]+\b starting at i, 0 for none
AuthorMatchEnd(text, i) ==
  LET l1 == RunLen(text, i + 1, LowerSet, Len(text))
      j  == i + 2 + l1
      l2 == RunLen(text, j + 1, LowerSet, Len(text))
      e  == j + l2
  IN  IF /\ At(text, i - 1) \notin WordChars
         /\ At(text, i) \in UpperSet
         /\ l1 >= 1
         /\ At(text, i + 1 + l1) = " "
         /\ At(text, j) \in UpperSet
         /\ l2 >= 1
         /\ At(text, e + 1) \notin WordChars
        THEN e
        ELSE 0

\* re.findall for the three patterns, from position i on: the matches from
\* left to right, the search resuming after the end of each match
RECURSIVE FindDois(_, _)
FindDois(text, i) ==
  LET starts == {j \in i..Len(text) : DoiMatchEnd(text, j) > 0}
  IN  IF starts = {} THEN << >>
      ELSE LET s == Min(starts)
               e == DoiMatchEnd(text, s)
           IN  <<SubSeq(text, s, e)>> \o FindDois(text, e + 1)

RECURSIVE FindArxivIds(_, _)
FindArxivIds(text, i) ==
  LET starts == {j \in i..Len(text) : ArxivMatchEnd(text, j) > 0}
  IN  IF starts = {} THEN << >>
      ELSE LET s == Min(starts)
               e == ArxivMatchEnd(text, s)
           IN  <<SubSeq(text, s, e)>> \o FindArxivIds(text, e + 1)

RECURSIVE FindAuthors(_, _)
FindAuthors(text, i) ==
  LET starts == {j \in i..Len(text) : AuthorMatchEnd(text, j) > 0}
  IN  IF starts = {} THEN << >>
      ELSE LET s == Min(starts)
               e == AuthorMatchEnd(text, s)
           IN  <<SubSeq(text, s, e)>> \o FindAuthors(text, e + 1)

tech_terms ==
  << <<"c","o","s","m","o","l","o","g","y">>,
     <<"C","M","B">>,
     <<"P","l","a","n","c","k">>,
     <<"C","A","M","B">>,
     <<"C","L","A","S","S">>,
     <<"C","L","A","S","S","Y">>,
     <<"d","a","r","k"," ","m","a","t","t","e","r">>,
     <<"d","a","r","k"," ","e","n","e","r","g","y">>,
     <<"b","a","r","y","o","n"," ","a","c","o","u","s","t","i","c"," ","o","s","c","i","l","l","a","t","i","o","n","s">>,
     <<"r","e","d","s","h","i","f","t">>,
     <<"l","u","m","i","n","o","s","i","t","y"," ","d","i","s","t","a","n","c","e">>,
     <<"a","n","g","u","l","a","r"," ","d","i","a","m","e","t","e","r"," ","d","i","s","t","a","n","c","e">>,
     <<"p","o","w","e","r"," ","s","p","e","c","t","r","u","m">>,
     <<"c","o","r","r","e","l","a","t","i","o","n"," ","f","u","n","c","t","i","o","n">>,
     <<"g","a","l","a","x","y"," ","c","l","u","s","t","e","r","i","n","g">>,
     <<"w","e","a","k"," ","l","e","n","s","i","n","g">>,
     <<"s","t","r","o","n","g"," ","l","e","n","s","i","n","g">>,
     <<"g","r","a","v","i","t","a","t","i","o","n","a","l"," ","w","a","v","e","s">>,
     <<"i","n","f","l","a","t","i","o","n">>,
     <<"r","e","i","o","n","i","z","a","t","i","o","n">>,
     <<"b","a","r","y","o","g","e","n","e","s","i","s">> >>

DoiPrefix == <<"d","o","i",":">>

ArxivPrefix == <<"a","r","x","i","v",":">>

AuthorPrefix == <<"a","u","t","h","o","r",":">>

ConceptPrefix == <<"c","o","n","c","e","p","t",":">>

Prefixed(prefix, items) == [i \in 1..Len(items) |-> prefix \o items[i]]

\* the terms of tech_terms that occur in the text, case-insensitively
RECURSIVE MatchingTerms(_, _)
MatchingTerms(text, k) ==
  IF k > Len(tech_terms) THEN << >>
  ELSE (IF Contains(Lower(tech_terms[k]), Lower(text))
          THEN <<tech_terms[k]>> ELSE << >>)
       \o MatchingTerms(text, k + 1)

\* the list `entities` before list(set(entities))
EntityList(text) ==
  Prefixed(DoiPrefix, FindDois(text, 1))
  \o Prefixed(ArxivPrefix, FindArxivIds(text, 1))
  \o Prefixed(AuthorPrefix, Slice(FindAuthors(text, 1), 0, MaxAuthors))
  \o Prefixed(ConceptPrefix, MatchingTerms(text, 1))

\* _extract_entities returns list(set(entities)): the distinct entities, in
\* an order that the hash seed of the process decides; the results it can
\* produce
_extract_entities(text) == Orderings(Range(EntityList(text)))

(***************************************************************************)
(* Relationship extraction.                                                *)
(***************************************************************************)
\* entity.split(':', 1)[1] if ':' in entity else entity
Term(entity) ==
  LET k == IndexOf(entity, ":", 1)
  IN  IF k = 0 THEN entity ELSE SubSeq(entity, k + 1, Len(entity))

\* re.split(r'[.!?]+', text)
RECURSIVE SplitSentences(_)
SplitSentences(text) ==
  LET n == RunLen(text, 1, Range(text) \ SentenceEnds, Len(text))
  IN  IF n = Len(text)
        THEN <<text>>
        ELSE LET r == RunLen(text, n + 1, SentenceEnds, Len(text))
             IN  <<SubSeq(text, 1, n)>>
                 \o SplitSentences(SubSeq(text, n + r + 1, Len(text)))

_entities_co_occur(text, entity1, entity2) ==
  LET term1 == Lower(Term(entity1))
      term2 == Lower(Term(entity2))
      sentences == SplitSentences(text)
  IN  \/ \E k \in 1..Len(sentences) :
            /\ Contains(term1, Lower(sentences[k]))
            /\ Contains(term2, Lower(sentences[k]))
      \/ \E i \in 0..(Len(text) - WindowLen - 1) :
            /\ Contains(term1, Lower(Slice(text, i, i + WindowLen)))
            /\ Contains(term2, Lower(Slice(text, i, i + WindowLen)))

Relationship(entity1, entity2) ==
  [source |-> entity1, target |-> entity2, type |-> "co_occurs_with", strength |-> 1]

\* the relationships of entities[i] with the entities after it, from j on
RECURSIVE RelationshipsFrom(_, _, _, _)
RelationshipsFrom(text, entities, i, j) ==
  IF j > Len(entities) THEN << >>
  ELSE (IF _entities_co_occur(text, entities[i], entities[j])
          THEN <<Relationship(entities[i], entities[j])>> ELSE << >>)
       \o RelationshipsFrom(text, entities, i, j + 1)

RECURSIVE RelationshipsOuter(_, _, _)
RelationshipsOuter(text, entities, i) ==
  IF i > Len(entities) THEN << >>
  ELSE RelationshipsFrom(text, entities, i, i + 1)
       \o RelationshipsOuter(text, entities, i + 1)

_extract_relationships(text, entities) == RelationshipsOuter(text, entities, 1)

(***************************************************************************)
(* The corpus directory.  The model fixes a small universe of files; which *)
(* of them exist and can be read is part of the state.                     *)
(***************************************************************************)
Files == 1..5

\* the parts of the corpus root, Path("/data/cmbagents/ragbook").parts
CorpusRoot == << <<"/">>, <<"d","a","t","a">>, <<"c","m","b","a","g","e","n","t","s">>, <<"r","a","g","b","o","o","k">> >>

\* parts: the path below the root; st_size: the size f.stat() reports;
\* content: the text read() returns when the file can be read
CorpusFile(f) ==
  CASE f = 1 -> [parts |-> << <<"c","m","b",".","m","d">> >>, st_size |-> 9, content |-> <<"C","M","B"," ","c","a","m","b",".">>]
    [] f = 2 -> [parts |-> << <<"b",".","t","x","t">> >>, st_size |-> 5, content |-> <<"c","m","b"," ","t">>]
    [] f = 3 -> [parts |-> << <<".","g","i","t">>, <<"c",".","m","d">> >>, st_size |-> 3, content |-> <<"C","M","B">>]
    [] f = 4 -> [parts |-> << <<"b","i","g",".","t","x","t">> >>, st_size |-> MaxFileSize, content |-> <<"C","A","M","B">>]
    [] f = 5 -> [parts |-> << <<"e",".","p","y">> >>, st_size |-> 3, content |-> <<"C","M","B">>]

\* the files whose presence and readability change in the model
EditableFiles == {1, 2}

\* what a file of the corpus directory can be: not there; there and
\* readable; there with open() raising; listed by the directory with
\* stat() and open() raising (a symbolic link to a path that does not
\* exist)
FileStates == {"absent", "ok", "unreadable", "dangling"}

Parts(f) == CorpusRoot \o CorpusFile(f).parts

\* file_path.name
Name(f) == CorpusFile(f).parts[Len(CorpusFile(f).parts)]

\* file_path.suffix: from the last dot of the name on, when the dot is not
\* the first character
Suffix(f) ==
  LET n == Name(f)
      dots == {i \in 2..Len(n) : n[i] = "."}
  IN  IF dots = {} \/ Len(n) = 0 THEN << >>
      ELSE LET d == CHOOSE i \in dots : \A j \in dots : j <= i
           IN  IF d = Len(n) THEN << >> ELSE SubSeq(n, d, Len(n))

\* str(file_path)
RECURSIVE JoinParts(_, _)
JoinParts(parts, k) ==
  IF k > Len(parts) THEN << >>
  ELSE (IF k > 2 THEN <<"/">> ELSE << >>) \o parts[k] \o JoinParts(parts, k + 1)

PathStr(f) == JoinParts(Parts(f), 1)

\* hashlib.md5(str(file_path).encode()).hexdigest()[:16]: a fingerprint of
\* the path, kept symbolic
DocId(path) == <<"md5", path>>

file_patterns == << <<".","j","s","o","n","l">>, <<".","m","d">>, <<".","t","e","x">>, <<".","t","x","t">> >>

\* the directory of a file, below the corpus root
Dir(f) == SubSeq(CorpusFile(f).parts, 1, Len(CorpusFile(f).parts) - 1)

\* the directory d is above the directory e
Above(d, e) == Len(d) < Len(e) /\ SubSeq(e, 1, Len(d)) = d

\* corpus_path.rglob(pattern) for the pattern "*" + ext: the listings it
\* can give of the existing files whose name ends with ext.  The files of
\* one directory come in the order of os.scandir, which is any order; the
\* files of a directory come before those of the directories below it.
Rglob(corpus, ext) ==
  {s \in Orderings({f \in Files : corpus[f] # "absent" /\ EndsWith(Name(f), ext)}) :
     \A i, j \in 1..Len(s) : i < j => ~Above(Dir(s[j]), Dir(s[i]))}

\* the loop of lines 175-176 from the k-th pattern on: the lists it can
\* leave in files_to_process
RECURSIVE RglobAll(_, _)
RglobAll(corpus, k) ==
  IF k > Len(file_patterns) THEN {<< >>}
  ELSE {a \o b : a \in Rglob(corpus, file_patterns[k]), b \in RglobAll(corpus, k + 1)}

\* the filter of index_corpus: below 10 MB, no part and no name starting
\* with a dot
Eligible(f) ==
  /\ CorpusFile(f).st_size < MaxFileSize
  /\ ~ \E k \in 1..Len(Parts(f)) : StartsWith(Parts(f)[k], <<".">>)
  /\ ~ StartsWith(Name(f), <<".">>)

RECURSIVE FilterEligible(_)
FilterEligible(fs) ==
  IF fs = << >> THEN << >>
  ELSE (IF Eligible(Head(fs)) THEN <<Head(fs)>> ELSE << >>)
       \o FilterEligible(Tail(fs))

\* whether the filter of index_corpus raises: f.stat() of line 181 is
\* evaluated first, for every file the rglob calls listed
ScanRaises(corpus) ==
  \E fs \in RglobAll(corpus, 1) : \E k \in 1..Len(fs) : corpus[fs[k]] = "dangling"

\* the lists the filter can leave in files_to_process
files_to_process(corpus) == {FilterEligible(fs) : fs \in RglobAll(corpus, 1)}

(***************************************************************************)
(* Documents.                                                              *)
(***************************************************************************)
\* _process_document for a file that can be read, with the entity list
\* _extract_entities returned
Document(f, entities) ==
  LET content == CorpusFile(f).content
  IN  [id            |-> DocId(PathStr(f)),
       path          |-> PathStr(f),
       filename      |-> Name(f),
       content       |-> Slice(content, 0, PreviewLen),
       entities      |-> entities,
       relationships |-> _extract_relationships(content, entities),
       size          |-> Len(content),
       type          |-> Suffix(f)]

\* the documents _process_document can return for a file: none when the
\* read fails, else one per order list(set(entities)) can take
_process_document(corpus, f) ==
  IF corpus[f] # "ok" THEN {}
  ELSE {Document(f, es) : es \in _extract_entities(CorpusFile(f).content)}

(***************************************************************************)
(* The index: documents (an insertion-ordered mapping doc id -> document,  *)
(* kept as the sequence of its documents), entities (an insertion-ordered  *)
(* mapping entity -> list of doc ids) and relationships (a list).          *)
(***************************************************************************)
EmptyIndex == [documents |-> << >>, entities |-> << >>, relationships |-> << >>]

\* new_documents[doc["id"]] = doc
PutDocument(documents, doc) ==
  IF \E k \in 1..Len(documents) : documents[k].id = doc.id
    THEN [k \in 1..Len(documents) |->
            IF documents[k].id = doc.id THEN doc ELSE documents[k]]
    ELSE Append(documents, doc)

\* all_entities.setdefault(entity, []).append(doc_id), as lines 200-202
AddEntity(all_entities, entity, doc_id) ==
  IF \E k \in 1..Len(all_entities) : all_entities[k].entity = entity
    THEN [k \in 1..Len(all_entities) |->
            IF all_entities[k].entity = entity
              THEN [entity |-> entity, docs |-> Append(all_entities[k].docs, doc_id)]
              ELSE all_entities[k]]
    ELSE Append(all_entities, [entity |-> entity, docs |-> <<doc_id>>])

RECURSIVE AddEntities(_, _, _)
AddEntities(all_entities, entities, doc_id) ==
  IF entities = << >> THEN all_entities
  ELSE AddEntities(AddEntity(all_entities, Head(entities), doc_id),
                   Tail(entities), doc_id)

\* the body of the loop of index_corpus for one document
AddDocument(acc, doc) ==
  [documents     |-> PutDocument(acc.documents, doc),
   entities      |-> AddEntities(acc.entities, doc.entities, doc.id),
   relationships |-> acc.relationships \o doc.relationships]

\* the loop of index_corpus leaving at the first file that cannot be read:
\*   if doc is None: break
RECURSIVE ProcessFiles_StopAtFailure(_, _, _)
ProcessFiles_StopAtFailure(corpus, fs, acc) ==
  IF fs = << >> THEN {acc}
  ELSE LET docs == _process_document(corpus, Head(fs))
       IN  IF docs = {}
             THEN {acc}
             ELSE UNION {ProcessFiles_StopAtFailure(corpus, Tail(fs), AddDocument(acc, d)) : d \in docs}

\* the loop of index_corpus over files_to_process: the indexes it can build
RECURSIVE ProcessFiles(_, _, _)
ProcessFiles(corpus, fs, acc) ==
  IF fs = << >> THEN {acc}
  ELSE LET docs == _process_document(corpus, Head(fs))
       IN  IF docs = {}
             THEN ProcessFiles(corpus, Tail(fs), acc)
             ELSE UNION {ProcessFiles(corpus, Tail(fs), AddDocument(acc, d)) : d \in docs}

\* lines 172-205 of index_corpus over what the file-system calls return:
\* the scan raises FileNotFoundError in the filter, or builds an index
ScanResults(corpus) ==
  IF ScanRaises(corpus)
    THEN {[raised |-> TRUE, built |-> EmptyIndex]}
    ELSE {[raised |-> FALSE, built |-> b] :
            b \in UNION {ProcessFiles(corpus, fs, EmptyIndex) : fs \in files_to_process(corpus)}}

\* What one scan can see of the corpus.  The scan looks at the directory
\* in several file-system calls (an rglob per pattern, a stat and an open
\* per file) and other processes change the corpus between them, so what
\* it sees of a file is what the file was when the scan looked at it: a
\* file removed after it was listed is seen as "dangling", one written
\* after its pattern was listed as "absent".
Seen(corpus) ==
  {c \in [Files -> FileStates] : \A f \in Files \ EditableFiles : c[f] = corpus[f]}

(***************************************************************************)
(* The three index files.  A file is missing, unparseable, or holds the    *)
(* JSON text of a value; json.dump followed by json.load gives the value   *)
(* back for the values the indexer writes (string keys, lists, strings,    *)
(* numbers), so a stored file is kept as the value it encodes.             *)
(***************************************************************************)
IndexFiles == {"documents", "entities", "relationships"}

MissingFile == [state |-> "missing", data |-> << >>]

CorruptFile == [state |-> "corrupt", data |-> << >>]

\* _load_json without the try: the default only for a file that does not
\* exist
_load_json_ExistsOnly(file, default, fails) ==
  IF file.state = "missing" THEN default ELSE file.data

\* _load_json: the default when the file does not exist, or when opening or
\* parsing it raises (fails: the open or the read fails)
_load_json(file, default, fails) ==
  IF file.state = "ok" /\ ~fails THEN file.data ELSE default

\* how a _save_json call can end: written; open() raised and the file is as
\* it was; json.dump or the close raised after open() truncated the file
SaveOutcomes == {"ok", "open_failed", "dump_failed"}

\* _save_json: the file afterwards
_save_json(data, file, outcome) ==
  CASE outcome = "ok" -> [state |-> "ok", data |-> data]
    [] outcome = "open_failed" -> file
    [] outcome = "dump_failed" -> CorruptFile

\* GraphRAGIndexer.__init__ after the mkdir: the three loads
LoadIndex(dsk, fails) ==
  [documents     |-> _load_json(dsk["documents"], << >>, "documents" \in fails),
   entities      |-> _load_json(dsk["entities"], << >>, "entities" \in fails),
   relationships |-> _load_json(dsk["relationships"], << >>, "relationships" \in fails)]

\* the record index_corpus returns when it skips
SkippedResult(ix) == [status |-> "skipped", documents |-> Len(ix.documents)]

\* the record index_corpus returns after a rebuild
SuccessResult(built) ==
  [status        |-> "success",
   documents     |-> Len(built.documents),
   entities      |-> Len(built.entities),
   relationships |-> Len(built.relationships)]

\* the test of line 165 without force_rebuild:
\*   if self.documents:
SkipsRebuild_IgnoresForce(ix, force_rebuild) == ix.documents # << >>

\* the test with the documents negated: `not force_rebuild and not self.documents`
SkipsRebuild_Negated(ix, force_rebuild) == ~force_rebuild /\ ix.documents = << >>

\* `not force_rebuild and self.documents`
SkipsRebuild(ix, force_rebuild) == ~force_rebuild /\ ix.documents # << >>

\* a call that raised returned no record
NoResult == [status |-> "none"]

\* index_corpus extending self.relationships instead of replacing it:
\*   self.relationships.extend(all_relationships)
index_corpus_ExtendsRelationships(ix, force_rebuild, dsk, scan, saves) ==
  IF SkipsRebuild(ix, force_rebuild)
    THEN [index |-> ix, disk |-> dsk, result |-> SkippedResult(ix),
          scanned |-> FALSE, raised |-> FALSE]
  ELSE IF scan.raised
    THEN [index |-> ix, disk |-> dsk, result |-> NoResult,
          scanned |-> TRUE, raised |-> TRUE]
  ELSE [index   |-> [scan.built EXCEPT !.relationships = ix.relationships \o @],
        disk    |-> [f \in IndexFiles |-> _save_json(scan.built[f], dsk[f], saves[f])],
        result  |-> SuccessResult(scan.built),
        scanned |-> TRUE,
        raised  |-> FALSE]

\* index_corpus on the index ix: the index and the files afterwards, the
\* record returned, whether the corpus was scanned and whether the call
\* raised.  scan is what the scan of the corpus came to (one of
\* ScanResults), saves how each of the three _save_json calls ended.  When
\* the filter raises nothing has been assigned or saved yet.
index_corpus(ix, force_rebuild, dsk, scan, saves) ==
  IF SkipsRebuild(ix, force_rebuild)
    THEN [index |-> ix, disk |-> dsk, result |-> SkippedResult(ix),
          scanned |-> FALSE, raised |-> FALSE]
  ELSE IF scan.raised
    THEN [index |-> ix, disk |-> dsk, result |-> NoResult,
          scanned |-> TRUE, raised |-> TRUE]
  ELSE [index   |-> scan.built,
        disk    |-> [f \in IndexFiles |-> _save_json(scan.built[f], dsk[f], saves[f])],
        result  |-> SuccessResult(scan.built),
        scanned |-> TRUE,
        raised  |-> FALSE]

(***************************************************************************)
(* Search (GraphRAGIndexer.search, _get_match_context) and the retriever.  *)
(***************************************************************************)
\* s[:n] of Python for any integer n
PyPrefix(s, n) ==
  IF n >= 0 THEN Slice(s, 0, n)
  ELSE IF Len(s) + n > 0 THEN SubSeq(s, 1, Len(s) + n)
  ELSE << >>

\* the characters str.strip() removes: those str.isspace() holds for
Whitespace ==
  {" ", "\t", "\n", "\r",
   "U+000B", "\f", "U+001C", "U+001D", "U+001E", "U+001F", "U+0085", "U+00A0", "U+1680",
   "U+2000", "U+2001", "U+2002", "U+2003", "U+2004", "U+2005", "U+2006", "U+2007", "U+2008",
   "U+2009", "U+200A", "U+2028", "U+2029", "U+202F", "U+205F", "U+3000" }

\* str.strip()
Strip(s) ==
  LET keep == {i \in 1..Len(s) : s[i] \notin Whitespace}
  IN  IF keep = {} THEN << >>
      ELSE SubSeq(s, Min(keep), CHOOSE i \in keep : \A j \in keep : j <= i)

\* s.find(sub, start): 0-based position of the first occurrence at or after
\* start, -1 when there is none
Find(s, sub, start) ==
  LET hits == {i \in start..(Len(s) - Len(sub)) : SubSeq(s, i + 1, i + Len(sub)) = sub}
  IN  IF hits = {} THEN -1 ELSE Min(hits)

\* the loop of _get_match_context from search position start on, with
\* found matches collected so far
RECURSIVE MatchContexts(_, _, _, _)
MatchContexts(content, query, start, found) ==
  LET pos == Find(Lower(content), Lower(query), start)
  IN  IF pos = -1 THEN << >>
      ELSE LET context_start == IF pos - WindowLen > 0 THEN pos - WindowLen ELSE 0
               context_end == IF pos + Len(query) + WindowLen < Len(content)
                                THEN pos + Len(query) + WindowLen
                                ELSE Len(content)
               context == Strip(Slice(content, context_start, context_end))
           IN  IF found + 1 >= 3
                 THEN <<context>>
                 ELSE <<context>> \o MatchContexts(content, query, pos + 1, found + 1)

_get_match_context(doc, query) == MatchContexts(doc.content, query, 0, 0)

\* the context of the match found at pos: lines 280-284
ContextAt(content, query, pos) ==
  Strip(Slice(content,
              IF pos - WindowLen > 0 THEN pos - WindowLen ELSE 0,
              IF pos + Len(query) + WindowLen < Len(content)
                THEN pos + Len(query) + WindowLen
                ELSE Len(content)))

\* the number of entities of the document that contain the query
EntityMatches(doc, query_lower) ==
  Cardinality({k \in 1..Len(doc.entities) : Contains(query_lower, Lower(doc.entities[k]))})

\* the score with the content match counted like the filename match
Score_ContentCountsOne(doc, query) ==
  LET query_lower == Lower(query)
  IN  (IF Contains(query_lower, Lower(doc.content)) THEN 1 ELSE 0)
      + EntityMatches(doc, query_lower)
      + (IF Contains(query_lower, Lower(doc.filename)) THEN 1 ELSE 0)

\* the score search gives a document
Score(doc, query) ==
  LET query_lower == Lower(query)
  IN  (IF Contains(query_lower, Lower(doc.content)) THEN 2 ELSE 0)
      + EntityMatches(doc, query_lower)
      + (IF Contains(query_lower, Lower(doc.filename)) THEN 1 ELSE 0)

\* the list `results` of search before the sort
RECURSIVE Candidates(_, _)
Candidates(documents, query) ==
  IF documents = << >> THEN << >>
  ELSE (IF Score(Head(documents), query) > 0
          THEN << [document |-> Head(documents),
                   score    |-> Score(Head(documents), query),
                   matches  |-> _get_match_context(Head(documents), query)] >>
          ELSE << >>)
       \o Candidates(Tail(documents), query)

\* the sort done as an ascending sort followed by results.reverse(): equal
\* scores come out in the reverse of the insertion order
SortByScore_TiesReversed(rs) ==
  LET rank(i) == 1 + Cardinality({j \in 1..Len(rs) :
                     \/ rs[j].score > rs[i].score
                     \/ rs[j].score = rs[i].score /\ j > i})
  IN  [k \in 1..Len(rs) |-> rs[CHOOSE i \in 1..Len(rs) : rank(i) = k]]

\* results.sort(key=lambda x: x["score"], reverse=True): a stable sort
SortByScore(rs) ==
  LET rank(i) == 1 + Cardinality({j \in 1..Len(rs) :
                     \/ rs[j].score > rs[i].score
                     \/ rs[j].score = rs[i].score /\ j < i})
  IN  [k \in 1..Len(rs) |-> rs[CHOOSE i \in 1..Len(rs) : rank(i) = k]]

search(ix, query, max_results) ==
  IF ix.documents = << >> THEN << >>
  ELSE PyPrefix(SortByScore(Candidates(ix.documents, query)), max_results)

\* GraphRAGIndexer.get_entity_info
get_entity_info(ix, entity) ==
  IF ~\E k \in 1..Len(ix.entities) : ix.entities[k].entity = entity
    THEN [entity |-> entity, documents |-> << >>, relationships |-> << >>]
    ELSE Let((CHOOSE e \in Range(ix.entities) : e.entity = entity).docs, LAMBDA doc_ids :
           Let([i \in 1..Len(SelectSeq(doc_ids, LAMBDA d :
                                  \E j \in 1..Len(ix.documents) : ix.documents[j].id = d)) |->
                  CHOOSE doc \in Range(ix.documents) :
                    doc.id = SelectSeq(doc_ids, LAMBDA d :
                               \E j \in 1..Len(ix.documents) : ix.documents[j].id = d)[i]],
               LAMBDA documents :
             [entity         |-> entity,
              documents      |-> documents,
              relationships  |-> SelectSeq(ix.relationships,
                                   LAMBDA rel : rel.source = entity \/ rel.target = entity),
              document_count |-> Len(documents)]))

FileUrlPrefix == <<"f","i","l","e",":","/","/">>

\* GraphRAGRetriever.retrieve
RetrieverRetrieve(ix, query, max_results) ==
  Let(search(ix, query, max_results), LAMBDA results :
    [k \in 1..Len(results) |->
       [title    |-> results[k].document.filename,
        url      |-> FileUrlPrefix \o results[k].document.path,
        doi      |-> None,
        content  |-> results[k].document.content,
        score    |-> results[k].score,
        matches  |-> results[k].matches,
        entities |-> PyPrefix(results[k].document.entities, 5),
        type     |-> "local_corpus"]])

\* GraphRAGRetriever.get_corpus_stats
RetrieverStats(ix) ==
  [documents     |-> Len(ix.documents),
   entities      |-> Len(ix.entities),
   relationships |-> Len(ix.relationships),
   corpus_path   |-> JoinParts(CorpusRoot, 1)]

(***************************************************************************)
(* The arXiv client (arxiv_rag.py).  A feed entry is kept as the values    *)
(* its elements hold; Absent stands for an element that is not there.  The *)
(* text of an element that is there and holds no text (<title/>,           *)
(* <title></title>) is None: the parser never gives the empty string.      *)
(***************************************************************************)
\* an element of an entry that is missing
Absent == << "Absent" >>

\* bool(x) of an optional string
Truthy(x) == x # None /\ x # << >>

\* re.search(r'abs/(\d+\.\d+(?:v\d+)?)', url).group(1), None without a match
AbsIdMatch(url, i) ==
  LET d1 == RunLen(url, i + 4, Digits, Len(url))
      d2 == RunLen(url, i + 5 + d1, Digits, Len(url))
      e  == i + 4 + d1 + d2
      v  == RunLen(url, e + 2, Digits, Len(url))
  IN  IF /\ SubSeq(url, i, i + 3) = <<"a","b","s","/">>
         /\ d1 >= 1
         /\ At(url, i + 4 + d1) = "."
         /\ d2 >= 1
        THEN SubSeq(url, i + 4, IF At(url, e + 1) = "v" /\ v >= 1 THEN e + 1 + v ELSE e)
        ELSE None

ArxivIdOf(url) ==
  LET starts == {i \in 1..(Len(url) - 3) : AbsIdMatch(url, i) # None}
  IN  IF starts = {} THEN None ELSE AbsIdMatch(url, Min(starts))

\* the href of the last link of the given type, None when there is none
LastLink(links, type) ==
  LET hits == {k \in 1..Len(links) : links[k].type = type}
  IN  IF hits = {} THEN None
      ELSE links[CHOOSE k \in hits : \A j \in hits : j <= k].href

\* the terms of the category elements that have one
RECURSIVE Terms(_)
Terms(categories) ==
  IF categories = << >> THEN << >>
  ELSE (IF Truthy(Head(categories)) THEN <<Head(categories)>> ELSE << >>)
       \o Terms(Tail(categories))

DoiStem == <<"1","0",".","4","8","5","5","0","/","a","r","X","i","v",".">>

\* element.text of an element that holds no text
NoText(text) == text = None \/ text = << >>

\* whether _parse_arxiv_entry raises: find() returned None for a required
\* element, or an author has no name (AttributeError on .text), or the
\* title or the summary holds no text (AttributeError on .strip())
ParseRaises(entry) ==
  \/ entry.title = Absent
  \/ NoText(entry.title)
  \/ entry.summary = Absent
  \/ NoText(entry.summary)
  \/ entry.published = Absent
  \/ entry.updated = Absent
  \/ \E k \in 1..Len(entry.authors) : entry.authors[k] = Absent

\* _parse_arxiv_entry looking for the id in the PDF link when there is no
\* abstract-page link
_parse_arxiv_entry_IdFromAnyLink(entry) ==
  Let(LastLink(entry.links, "text/html"), LAMBDA abstract_url :
    Let(IF Truthy(abstract_url) THEN ArxivIdOf(abstract_url)
        ELSE IF Truthy(LastLink(entry.links, "application/pdf"))
          THEN ArxivIdOf(LastLink(entry.links, "application/pdf"))
        ELSE None, LAMBDA arxiv_id :
      [title        |-> Strip(entry.title),
       authors      |-> entry.authors,
       summary      |-> Strip(entry.summary),
       published    |-> entry.published,
       updated      |-> entry.updated,
       arxiv_id     |-> arxiv_id,
       pdf_url      |-> LastLink(entry.links, "application/pdf"),
       abstract_url |-> abstract_url,
       doi          |-> IF Truthy(arxiv_id) THEN DoiStem \o arxiv_id ELSE None,
       categories   |-> Terms(entry.categories),
       type         |-> "arxiv_paper"]))

_parse_arxiv_entry(entry) ==
  Let(LastLink(entry.links, "text/html"), LAMBDA abstract_url :
    Let(IF Truthy(abstract_url) THEN ArxivIdOf(abstract_url) ELSE None, LAMBDA arxiv_id :
      [title        |-> Strip(entry.title),
       authors      |-> entry.authors,
       summary      |-> Strip(entry.summary),
       published    |-> entry.published,
       updated      |-> entry.updated,
       arxiv_id     |-> arxiv_id,
       pdf_url      |-> LastLink(entry.links, "application/pdf"),
       abstract_url |-> abstract_url,
       doi          |-> IF Truthy(arxiv_id) THEN DoiStem \o arxiv_id ELSE None,
       categories   |-> Terms(entry.categories),
       type         |-> "arxiv_paper"]))

\* search with the try around each entry instead of around the call: an
\* entry that does not parse is left out
ArxivSearch_SkipBadEntries(response) ==
  IF ~response.ok THEN << >>
  ELSE LET good == SelectSeq(response.entries, LAMBDA e : ~ParseRaises(e))
       IN  [k \in 1..Len(good) |-> _parse_arxiv_entry(good[k])]

\* ArxivRetriever.search: response.ok is FALSE when the request, the status
\* check or the XML parser raises; entries are the entry elements of the feed
ArxivSearch(response) ==
  IF ~response.ok \/ \E k \in 1..Len(response.entries) : ParseRaises(response.entries[k])
    THEN << >>
    ELSE [k \in 1..Len(response.entries) |-> _parse_arxiv_entry(response.entries[k])]

AbsUrlPrefix == <<"h","t","t","p","s",":","/","/","a","r","x","i","v",".","o","r","g","/","a","b","s","/">>

\* ArxivRAGRetriever.retrieve
ArxivRAGRetrieve(response) ==
  Let(ArxivSearch(response), LAMBDA papers :
    [k \in 1..Len(papers) |->
       [title      |-> papers[k].title,
        url        |-> IF Truthy(papers[k].abstract_url)
                         THEN papers[k].abstract_url
                         ELSE AbsUrlPrefix \o (IF papers[k].arxiv_id = None
                                                 THEN <<"N","o","n","e">> ELSE papers[k].arxiv_id),
        doi        |-> papers[k].doi,
        content    |-> papers[k].summary,
        authors    |-> papers[k].authors,
        arxiv_id   |-> papers[k].arxiv_id,
        categories |-> papers[k].categories,
        published  |-> papers[k].published,
        type       |-> "arxiv_paper"]])

\* The entries the model's feeds are made of: the entry of the repository's
\* test, an entry with no abstract-page link, an entry with no title, an
\* entry whose abstract page carries an old-style id, an entry with two
\* abstract-page links, an entry whose title is empty.
FeedEntry(k) ==
  CASE k = 1 -> [title |-> <<"T","e","s","t"," ","P","a","p","e","r"," ","T","i","t","l","e">>, summary |-> <<"A","b","o","u","t"," ","c","o","s","m","o","l","o","g","y",".">>,
                 published |-> <<"2","0","2","3","-","0","1","-","0","1","T","0","0",":","0","0",":","0","0","Z">>, updated |-> <<"2","0","2","3","-","0","1","-","0","1","T","0","0",":","0","0",":","0","0","Z">>,
                 authors |-> << <<"T","e","s","t"," ","A","u","t","h","o","r">> >>,
                 links |-> << [type |-> "application/pdf", href |-> <<"h","t","t","p",":","/","/","a","r","x","i","v",".","o","r","g","/","p","d","f","/","2","3","0","1",".","0","0","0","0","1",".","p","d","f">>],
                              [type |-> "text/html", href |-> <<"h","t","t","p",":","/","/","a","r","x","i","v",".","o","r","g","/","a","b","s","/","2","3","0","1",".","0","0","0","0","1">>] >>,
                 categories |-> << <<"a","s","t","r","o","-","p","h",".","C","O">> >>]
    [] k = 2 -> [title |-> <<" ","N","o"," ","L","i","n","k"," ">>, summary |-> <<"x">>,
                 published |-> <<"2","0","2","3">>, updated |-> <<"2","0","2","3">>,
                 authors |-> << >>,
                 links |-> << [type |-> "application/pdf", href |-> <<"h","t","t","p",":","/","/","a","r","x","i","v",".","o","r","g","/","p","d","f","/","a","b","s","/","2","3","0","1",".","0","0","0","0","2">>] >>,
                 categories |-> << >>]
    [] k = 3 -> [title |-> Absent, summary |-> <<"x">>,
                 published |-> <<"2","0","2","3">>, updated |-> <<"2","0","2","3">>,
                 authors |-> << >>, links |-> << >>, categories |-> << >>]
    [] k = 4 -> [title |-> <<"O","l","d"," ","I","d">>, summary |-> <<"x">>,
                 published |-> <<"2","0","0","6">>, updated |-> <<"2","0","0","6">>,
                 authors |-> << <<"A"," ","B">> >>,
                 links |-> << [type |-> "text/html", href |-> <<"h","t","t","p",":","/","/","a","r","x","i","v",".","o","r","g","/","a","b","s","/","a","s","t","r","o","-","p","h","/","0","6","0","1","0","0","1">>],
                              [type |-> "application/pdf", href |-> <<"h","t","t","p",":","/","/","a","r","x","i","v",".","o","r","g","/","p","d","f","/","2","3","0","1",".","0","0","0","0","4">>] >>,
                 categories |-> << >>]
    [] k = 5 -> [title |-> <<"T","w","o"," ","P","a","g","e","s">>, summary |-> <<"x">>,
                 published |-> <<"2","0","2","3">>, updated |-> <<"2","0","2","3">>,
                 authors |-> << >>,
                 links |-> << [type |-> "text/html", href |-> <<"h","t","t","p",":","/","/","a","r","x","i","v",".","o","r","g","/","a","b","s","/","2","3","0","1",".","0","0","0","0","5">>],
                              [type |-> "text/html", href |-> <<"h","t","t","p",":","/","/","a","r","x","i","v",".","o","r","g","/","a","b","s","/","2","3","0","1",".","0","0","0","0","6","v","2">>] >>,
                 categories |-> << >>]
    [] k = 6 -> [title |-> None, summary |-> <<"x">>,
                 published |-> <<"2","0","2","3">>, updated |-> <<"2","0","2","3">>,
                 authors |-> << >>, links |-> << >>, categories |-> << >>]

EntryKinds == 1..3

\* the feeds of at most n entries
RECURSIVE Feeds(_)
Feeds(n) ==
  IF n = 0 THEN {<< >>}
  ELSE Feeds(n - 1) \cup
       {Append(s, FeedEntry(k)) : s \in {t \in Feeds(n - 1) : Len(t) = n - 1}, k \in EntryKinds}

\* what a request to the arXiv API can come to
Responses ==
  {[ok |-> FALSE, entries |-> << >>]} \cup {[ok |-> TRUE, entries |-> s] : s \in Feeds(MaxPapers)}

(***************************************************************************)
(* Providers and adapters (rag_adapter.py).                                *)
(***************************************************************************)
\* the members of the enumeration RAGProvider, in declaration order
RAGProvider == << "PERPLEXITY", "DOMAIN", "GRAPHRAG", "ARXIV" >>

Providers == Range(RAGProvider)

\* the adapters that construct a backing retriever on first use
LazyProviders == {"GRAPHRAG", "ARXIV"}

\* member.value
ProviderValue(p) ==
  CASE p = "PERPLEXITY" -> "Perplexity (web)"
    [] p = "DOMAIN" -> "Domain (Planck/CAMB/CLASSY)"
    [] p = "GRAPHRAG" -> "GraphRAG (local corpus)"
    [] p = "ARXIV" -> "arXiv (academic papers)"

\* whether RAGProvider(s) finds a member for the string s
IsProviderValue(s) == \E p \in Providers : ProviderValue(p) = s

\* RAGProvider(s) for such a string
ProviderOfValue(s) == CHOOSE p \in Providers : ProviderValue(p) = s

\* A provider argument is a member of the enumeration or a string.
Member(p) == [isStr |-> FALSE, v |-> p]

Str(s) == [isStr |-> TRUE, v |-> s]

\* whether the argument names a provider
Recognized(arg) == ~arg.isStr \/ IsProviderValue(arg.v)

\* the member the argument resolves to
Resolve(arg) == IF arg.isStr THEN ProviderOfValue(arg.v) ELSE arg.v

\* A max_results argument is an integer or, with isInt FALSE, a value that
\* cannot be used as a slice index (a string from a form field).
IntArg(n) == [isInt |-> TRUE, n |-> n]

NonIntArg == [isInt |-> FALSE, n |-> 0]

\* RetrievalResult
RetrievalResult(title, url, doi, content, score, provider, metadata) ==
  [title |-> title, url |-> url, doi |-> doi, content |-> content,
   score |-> score, provider |-> provider, metadata |-> metadata]

\* what an adapter call comes to: the list returned, or an exception
Returned(list) == [raised |-> FALSE, ret |-> list]

Raised == [raised |-> TRUE, ret |-> << >>]

\* PerplexityAdapter._fallback_retrieve
_fallback_retrieve(query, max_results) ==
  << RetrievalResult(<< "Web Search Fallback" >>, << "https://perplexity.ai" >>, None,
                     << "Perplexity search for: " >> \o query, 1,
                     ProviderValue("PERPLEXITY"),
                     [fallback |-> TRUE, query |-> query]) >>

\* PerplexityAdapter.retrieve with the remote call implemented: with a
\* credential it returns what the search found, not the placeholder
PerplexityRetrieve_Remote(api_key, query, max_results) ==
  IF ~api_key
    THEN Returned(_fallback_retrieve(query, max_results))
    ELSE Returned(<< RetrievalResult(query, << "https://perplexity.ai" >>, None,
                                     query, 1, ProviderValue("PERPLEXITY"),
                                     [fallback |-> FALSE, query |-> query]) >>)

\* PerplexityAdapter.retrieve: the placeholder on every path
PerplexityRetrieve(api_key, query, max_results) ==
  IF ~api_key
    THEN Returned(_fallback_retrieve(query, max_results))
    ELSE Returned(_fallback_retrieve(query, max_results))

\* DomainAdapter._get_domain_contexts; each text is kept whole
_get_domain_contexts ==
  << [title    |-> << "Planck Mission Context" >>,
      url      |-> << "https://www.cosmos.esa.int/web/planck" >>,
      content  |-> << "Planck 2018 results: cosmological parameters from CMB temperature and polarization\n- Key datasets: Planck 2018 TT,TE,EE+lowE+lensing+BAO\n- Relevant parameters: H0, Ωm, ΩΛ, ns, As, τ\n- Recent constraints: H0 = 67.4 ± 0.5 km/s/Mpc (Planck 2018)\n- Lensing potential: Planck lensing reconstruction\n- Systematics: foreground contamination, beam uncertainties" >>,
      metadata |-> [domain |-> "planck", type |-> "mission_context"]],
     [title    |-> << "CAMB (Code for Anisotropies in the Microwave Background)" >>,
      url      |-> << "https://camb.readthedocs.io/" >>,
      content  |-> << "Boltzmann solver for CMB anisotropies and matter power spectra\n- Key features: scalar, vector, tensor modes; dark energy models\n- Recent updates: CAMB 1.3+ with improved precision\n- Applications: parameter estimation, likelihood analysis\n- Integration: CosmoMC, MontePython, Cobaya\n- Outputs: Cl, P(k), transfer functions" >>,
      metadata |-> [domain |-> "camb", type |-> "tool_context"]],
     [title    |-> << "CLASSY (Cosmic Linear Anisotropy Solving System)" >>,
      url      |-> << "https://class-code.net/" >>,
      content  |-> << "Alternative to CAMB for CMB and LSS calculations\n- Features: high precision, modular design, dark energy models\n- Recent work: CLASSY-SZ for Sunyaev-Zel'dovich effects\n- Applications: parameter estimation, model comparison\n- Integration: MontePython, Cobaya\n- Advantages: speed, flexibility, extended models" >>,
      metadata |-> [domain |-> "classy", type |-> "tool_context"]] >>

\* DomainAdapter.retrieve as a search: nothing for a query that is not a
\* word of the contexts
DomainRetrieve_Matching(query, max_results) ==
  IF ~max_results.isInt THEN Raised
  ELSE Let(IF query = <<"z","z">> THEN << >>
           ELSE PyPrefix(_get_domain_contexts, max_results.n), LAMBDA contexts :
         Returned([k \in 1..Len(contexts) |->
           RetrievalResult(contexts[k].title, contexts[k].url, None,
                           contexts[k].content, 1, ProviderValue("DOMAIN"),
                           contexts[k].metadata)]))

\* DomainAdapter.retrieve: slicing with a non-integer raises TypeError
DomainRetrieve(query, max_results) ==
  IF ~max_results.isInt THEN Raised
  ELSE Let(PyPrefix(_get_domain_contexts, max_results.n), LAMBDA contexts :
         Returned([k \in 1..Len(contexts) |->
           RetrievalResult(contexts[k].title, contexts[k].url, None,
                           contexts[k].content, 1, ProviderValue("DOMAIN"),
                           contexts[k].metadata)]))

(***************************************************************************)
(* The state the lazily constructed adapters work on:                      *)
(*   retriever  adapter._retriever of the two lazy adapters (0: None)      *)
(*   singleton  the module globals _graphrag_retriever, _arxiv_retriever   *)
(*   index      the index of the GraphRAG retriever's indexer              *)
(*   disk       the three index files                                      *)
(* and the inputs of one call, drawn by the environment:                   *)
(*   mkdirFails index_path.mkdir raises in GraphRAGIndexer.__init__        *)
(*   made       the index and the files GraphRAGRetriever() leaves, or     *)
(*              that it raised in _ensure_indexed: one of                  *)
(*              GraphRAGConstructions                                      *)
(*   response   what the arXiv request comes to                            *)
(***************************************************************************)
\* the one instance a module's get_*_retriever() ever constructs
TheInstance == 1

\* GraphRAGRetriever(): the indexer is constructed from the files, then
\* _ensure_indexed indexes the corpus when no document was loaded
\* (loadFails: the index files whose load fails; scan: what a corpus scan
\* comes to; saves: how the three saves of a rebuild end); raised: the
\* scan raised and with it the constructor
NewGraphRAGRetriever(dsk, loadFails, scan, saves) ==
  Let(LoadIndex(dsk, loadFails), LAMBDA loaded :
    IF loaded.documents = << >>
      THEN Let(index_corpus(loaded, FALSE, dsk, scan, saves), LAMBDA done :
             [index |-> done.index, disk |-> done.disk, scanned |-> TRUE,
              raised |-> done.raised])
      ELSE [index |-> loaded, disk |-> dsk, scanned |-> FALSE, raised |-> FALSE])

\* the outcomes of the three saves of one index_corpus call: at most
\* MaxSaveFaults of them fail
SaveFaults ==
  {sv \in [IndexFiles -> SaveOutcomes] :
     Cardinality({f \in IndexFiles : sv[f] # "ok"}) <= MaxSaveFaults}

\* what GraphRAGRetriever() can leave, over the faults of the loads and
\* the saves and the orders of the entity lists
GraphRAGConstructions(dsk, corpus) ==
  {NewGraphRAGRetriever(dsk, lf, sc, sv) :
     lf \in SUBSET IndexFiles, sc \in ScanResults(corpus), sv \in SaveFaults}

\* search without the test `if not self.documents` of line 232
SearchCall_NoGuard(ix, query, max_results) ==
  IF ~max_results.isInt THEN Raised
  ELSE Returned(search(ix, query, max_results.n))

\* indexer.search(query, max_results) as a call: the slice
\* results[:max_results] raises TypeError for a max_results that is no
\* integer; without documents the method returns before it
SearchCall(ix, query, max_results) ==
  IF ix.documents = << >> THEN Returned(<< >>)
  ELSE IF ~max_results.isInt THEN Raised
  ELSE Returned(search(ix, query, max_results.n))

\* retriever.retrieve(query, max_results) as a call
RetrieverRetrieveCall(ix, query, max_results) ==
  IF SearchCall(ix, query, max_results).raised THEN Raised
  ELSE Returned(RetrieverRetrieve(ix, query, max_results.n))

\* the same statement with the retriever kept in a local variable:
\*   retriever = get_graphrag_retriever()
GraphRAGEnsureRetriever_Local(w, x) ==
  IF w.singleton["GRAPHRAG"] # 0
    THEN [raised |-> FALSE, w |-> w]
  ELSE IF x.mkdirFails \/ x.made.raised
    THEN [raised |-> TRUE, w |-> w]
  ELSE [raised |-> FALSE,
        w |-> [w EXCEPT !.singleton["GRAPHRAG"] = TheInstance,
                        !.index = x.made.index,
                        !.disk = x.made.disk]]

\* the first statement of the try block of GraphRAGAdapter.retrieve:
\*   if self._retriever is None: self._retriever = get_graphrag_retriever()
\* raised: the constructor raised and nothing was assigned
GraphRAGEnsureRetriever(w, x) ==
  IF w.retriever["GRAPHRAG"] # 0
    THEN [raised |-> FALSE, w |-> w]
  ELSE IF w.singleton["GRAPHRAG"] # 0
    THEN [raised |-> FALSE,
          w |-> [w EXCEPT !.retriever["GRAPHRAG"] = w.singleton["GRAPHRAG"]]]
  ELSE IF x.mkdirFails \/ x.made.raised
    THEN [raised |-> TRUE, w |-> w]
  ELSE [raised |-> FALSE,
        w |-> [w EXCEPT !.retriever["GRAPHRAG"] = TheInstance,
                        !.singleton["GRAPHRAG"] = TheInstance,
                        !.index = x.made.index,
                        !.disk = x.made.disk]]

\* the conversion loop of GraphRAGAdapter.retrieve
GraphRAGConvert(results) ==
  [k \in 1..Len(results) |->
     RetrievalResult(results[k].title, results[k].url, results[k].doi,
                     results[k].content, results[k].score,
                     ProviderValue("GRAPHRAG"), << >>)]

\* GraphRAGAdapter.retrieve with an except block that drops the retriever:
\*   except Exception: self._retriever = None; return []
GraphRAGRetrieve_DropOnFailure(w, importable, x, query, max_results) ==
  IF ~importable["GRAPHRAG"] THEN [out |-> Returned(<< >>), w |-> w]
  ELSE Let(GraphRAGEnsureRetriever(w, x), LAMBDA got :
         IF got.raised
           THEN [out |-> Returned(<< >>),
                 w |-> [got.w EXCEPT !.retriever["GRAPHRAG"] = 0]]
         ELSE IF ~max_results.isInt /\ got.w.index.documents # << >>
           THEN [out |-> Returned(<< >>),
                 w |-> [got.w EXCEPT !.retriever["GRAPHRAG"] = 0]]
         ELSE [out |-> Returned(GraphRAGConvert(
                         RetrieverRetrieve(got.w.index, query, max_results.n))),
               w |-> got.w])

\* GraphRAGAdapter.retrieve: the result and the state afterwards.  The
\* slice results[:max_results] of search raises TypeError for a
\* non-integer when there are documents; the adapter catches everything.
GraphRAGRetrieve(w, importable, x, query, max_results) ==
  IF ~importable["GRAPHRAG"] THEN [out |-> Returned(<< >>), w |-> w]
  ELSE Let(GraphRAGEnsureRetriever(w, x), LAMBDA got :
         IF got.raised THEN [out |-> Returned(<< >>), w |-> got.w]
         ELSE IF ~max_results.isInt /\ got.w.index.documents # << >>
           THEN [out |-> Returned(<< >>), w |-> got.w]
         ELSE [out |-> Returned(GraphRAGConvert(
                         RetrieverRetrieve(got.w.index, query, max_results.n))),
               w |-> got.w])

\* GraphRAGAdapter.get_corpus_stats
GraphRAGCorpusStats(w, importable) ==
  IF ~importable["GRAPHRAG"] \/ w.retriever["GRAPHRAG"] = 0
    THEN [documents |-> 0, entities |-> 0, relationships |-> 0]
    ELSE RetrieverStats(w.index)

\* the first statement of the try block of ArxivAdapter.retrieve
ArxivEnsureRetriever(w) ==
  IF w.retriever["ARXIV"] # 0 THEN w
  ELSE IF w.singleton["ARXIV"] # 0
    THEN [w EXCEPT !.retriever["ARXIV"] = w.singleton["ARXIV"]]
  ELSE [w EXCEPT !.retriever["ARXIV"] = TheInstance, !.singleton["ARXIV"] = TheInstance]

\* the conversion loop of ArxivAdapter.retrieve without the provider
\* argument: the field keeps the default of the dataclass, ""
ArxivConvert_DefaultProvider(results) ==
  [k \in 1..Len(results) |->
     RetrievalResult(results[k].title, results[k].url, results[k].doi,
                     results[k].content, 1, "",
                     [authors    |-> results[k].authors,
                      arxiv_id   |-> results[k].arxiv_id,
                      categories |-> results[k].categories,
                      published  |-> results[k].published,
                      type       |-> "arxiv_paper"])]

\* the conversion loop of ArxivAdapter.retrieve
ArxivConvert(results) ==
  [k \in 1..Len(results) |->
     RetrievalResult(results[k].title, results[k].url, results[k].doi,
                     results[k].content, 1, ProviderValue("ARXIV"),
                     [authors    |-> results[k].authors,
                      arxiv_id   |-> results[k].arxiv_id,
                      categories |-> results[k].categories,
                      published  |-> results[k].published,
                      type       |-> "arxiv_paper"])]

\* ArxivAdapter.retrieve
ArxivRetrieve(w, importable, x, query, max_results) ==
  IF ~importable["ARXIV"] THEN [out |-> Returned(<< >>), w |-> w]
  ELSE [out |-> Returned(ArxivConvert(ArxivRAGRetrieve(x.response))),
        w |-> ArxivEnsureRetriever(w)]

\* is_available with a domain adapter that needs the credential too
is_available_DomainNeedsKey(p, api_key, importable) ==
  CASE p = "PERPLEXITY" -> api_key
    [] p = "DOMAIN" -> api_key
    [] p \in LazyProviders -> importable[p]

\* adapter.is_available()
is_available(p, api_key, importable) ==
  CASE p = "PERPLEXITY" -> api_key
    [] p = "DOMAIN" -> TRUE
    [] p \in LazyProviders -> importable[p]

\* adapter.retrieve(query, max_results) of the adapter of provider p
AdapterRetrieve(p, w, api_key, importable, x, query, max_results) ==
  CASE p = "PERPLEXITY" ->
         [out |-> PerplexityRetrieve(api_key, query, max_results), w |-> w]
    [] p = "DOMAIN" ->
         [out |-> DomainRetrieve(query, max_results), w |-> w]
    [] p = "GRAPHRAG" -> GraphRAGRetrieve(w, importable, x, query, max_results)
    [] p = "ARXIV" -> ArxivRetrieve(w, importable, x, query, max_results)

(***************************************************************************)
(* The unified facade (UnifiedRAGAdapter).  A facade call returns          *)
(*   ret      the list returned                                            *)
(*   w        the state of the lazy adapters afterwards                    *)
(*   invoked  the providers whose adapter.retrieve was called, in order    *)
(*   caught   whether an adapter raised and the facade caught it           *)
(***************************************************************************)
\* get_available_providers walking the adapters from the last to the first
get_available_providers_Reversed(api_key, importable) ==
  LET fwd == SelectSeq(RAGProvider, LAMBDA p : is_available(p, api_key, importable))
  IN  [k \in 1..Len(fwd) |-> fwd[Len(fwd) + 1 - k]]

\* get_available_providers: the members whose adapter is available, in the
\* order of the adapters dict, which is the declaration order
get_available_providers(api_key, importable) ==
  SelectSeq(RAGProvider, LAMBDA p : is_available(p, api_key, importable))

\* UnifiedRAGAdapter.retrieve without the availability test of line 336
retrieve_Unchecked(w, api_key, importable, x, query, provider, max_results) ==
  IF provider.isStr /\ ~IsProviderValue(provider.v)
    THEN [ret |-> << >>, w |-> w, invoked |-> << >>, caught |-> FALSE, raised |-> FALSE]
  ELSE Let(AdapterRetrieve(Resolve(provider), w, api_key, importable, x, query, max_results), LAMBDA r :
         [ret |-> r.out.ret, w |-> r.w, invoked |-> <<Resolve(provider)>>,
          caught |-> r.out.raised, raised |-> FALSE])

\* UnifiedRAGAdapter.retrieve without the try of line 340: what the adapter
\* raises reaches the caller
retrieve_Uncaught(w, api_key, importable, x, query, provider, max_results) ==
  IF provider.isStr /\ ~IsProviderValue(provider.v)
    THEN [ret |-> << >>, w |-> w, invoked |-> << >>, caught |-> FALSE, raised |-> FALSE]
  ELSE IF ~is_available(Resolve(provider), api_key, importable)
    THEN [ret |-> << >>, w |-> w, invoked |-> << >>, caught |-> FALSE, raised |-> FALSE]
  ELSE Let(AdapterRetrieve(Resolve(provider), w, api_key, importable, x, query, max_results), LAMBDA r :
         [ret |-> r.out.ret, w |-> r.w, invoked |-> <<Resolve(provider)>>,
          caught |-> FALSE, raised |-> r.out.raised])

\* UnifiedRAGAdapter.retrieve.  raised: an exception left the call; every
\* path of the method returns.
retrieve(w, api_key, importable, x, query, provider, max_results) ==
  IF provider.isStr /\ ~IsProviderValue(provider.v)
    THEN [ret |-> << >>, w |-> w, invoked |-> << >>, caught |-> FALSE, raised |-> FALSE]
  ELSE IF ~is_available(Resolve(provider), api_key, importable)
    THEN [ret |-> << >>, w |-> w, invoked |-> << >>, caught |-> FALSE, raised |-> FALSE]
  ELSE Let(AdapterRetrieve(Resolve(provider), w, api_key, importable, x, query, max_results), LAMBDA r :
         IF r.out.raised
           THEN [ret |-> << >>, w |-> r.w, invoked |-> <<Resolve(provider)>>,
                 caught |-> TRUE, raised |-> FALSE]
           ELSE [ret |-> r.out.ret, w |-> r.w, invoked |-> <<Resolve(provider)>>,
                 caught |-> FALSE, raised |-> FALSE])

\* the loop of retrieve_with_fallback without the test
\* `provider != preferred_provider`: the preferred provider is tried again
\* when its turn comes
RECURSIVE FallbackLoop_RetryPreferred(_, _, _, _, _, _, _, _, _, _, _)
FallbackLoop_RetryPreferred(w, api_key, importable, x, query, preferred, max_results, available, k, invoked, caught) ==
  IF k > Len(available)
    THEN [ret |-> << >>, w |-> w, invoked |-> invoked, caught |-> caught]
  ELSE Let(retrieve(w, api_key, importable, x, query, Member(available[k]), max_results), LAMBDA r :
         IF r.ret # << >>
           THEN [ret |-> r.ret, w |-> r.w, invoked |-> invoked \o r.invoked,
                 caught |-> caught \/ r.caught]
           ELSE FallbackLoop_RetryPreferred(r.w, api_key, importable, x, query, preferred,
                             max_results, available, k + 1,
                             invoked \o r.invoked, caught \/ r.caught))

\* the loop of retrieve_with_fallback over available_providers from k on;
\* invoked and caught carry what the calls so far did
RECURSIVE FallbackLoop(_, _, _, _, _, _, _, _, _, _, _)
FallbackLoop(w, api_key, importable, x, query, preferred, max_results, available, k, invoked, caught) ==
  IF k > Len(available)
    THEN [ret |-> << >>, w |-> w, invoked |-> invoked, caught |-> caught]
  ELSE IF available[k] = preferred
    THEN FallbackLoop(w, api_key, importable, x, query, preferred, max_results,
                      available, k + 1, invoked, caught)
  ELSE Let(retrieve(w, api_key, importable, x, query, Member(available[k]), max_results), LAMBDA r :
         IF r.ret # << >>
           THEN [ret |-> r.ret, w |-> r.w, invoked |-> invoked \o r.invoked,
                 caught |-> caught \/ r.caught]
           ELSE FallbackLoop(r.w, api_key, importable, x, query, preferred,
                             max_results, available, k + 1,
                             invoked \o r.invoked, caught \/ r.caught))

\* retrieve_with_fallback that gives up after the preferred provider
retrieve_with_fallback_PreferredOnly(w, api_key, importable, x, query, preferred_provider, max_results) ==
  IF preferred_provider.isStr /\ ~IsProviderValue(preferred_provider.v)
    THEN [ret |-> << >>, w |-> w, invoked |-> << >>, caught |-> FALSE]
  ELSE retrieve(w, api_key, importable, x, query,
                Member(Resolve(preferred_provider)), max_results)

\* UnifiedRAGAdapter.retrieve_with_fallback
retrieve_with_fallback(w, api_key, importable, x, query, preferred_provider, max_results) ==
  IF preferred_provider.isStr /\ ~IsProviderValue(preferred_provider.v)
    THEN [ret |-> << >>, w |-> w, invoked |-> << >>, caught |-> FALSE]
  ELSE Let(retrieve(w, api_key, importable, x, query, Member(Resolve(preferred_provider)), max_results), LAMBDA first :
         IF first.ret # << >>
           THEN first
           ELSE FallbackLoop(first.w, api_key, importable, x, query,
                             Resolve(preferred_provider), max_results,
                             get_available_providers(api_key, importable), 1,
                             first.invoked, first.caught))

\* UnifiedRAGAdapter.get_provider_info
get_provider_info(w, api_key, importable, provider) ==
  IF provider.isStr /\ ~IsProviderValue(provider.v)
    THEN [error |-> << "Unknown provider: ", provider.v >>]
  ELSE IF Resolve(provider) = "GRAPHRAG"
    THEN [name         |-> ProviderValue(Resolve(provider)),
          available    |-> is_available(Resolve(provider), api_key, importable),
          provider     |-> ProviderValue(Resolve(provider)),
          corpus_stats |-> GraphRAGCorpusStats(w, importable)]
  ELSE [name      |-> ProviderValue(Resolve(provider)),
        available |-> is_available(Resolve(provider), api_key, importable),
        provider  |-> ProviderValue(Resolve(provider))]

(***************************************************************************)
(* The state.                                                              *)
(*   environ      whether PERPLEXITY_API_KEY is set in os.environ          *)
(*   api_key      whether PerplexityAdapter.api_key is not None            *)
(*   importable   whether the module behind a lazy adapter can be imported *)
(*                (the interpreter parses the modules: Python 3.12 or      *)
(*                later, where the f-string of graphrag.py:216 is valid)   *)
(*   corpus       the state of each file of the corpus directory           *)
(*   disk         the three index files                                    *)
(*   constructed  whether a GraphRAGIndexer exists                         *)
(*   index        its documents, entities and relationships                *)
(*   retriever    adapter._retriever of the lazy adapters (0: None)        *)
(*   singleton    the module globals behind get_*_retriever() (0: None)    *)
(*   writers      the callers that reindex the index directory at the same *)
(*                time, each with an indexer of its own: how far each has  *)
(*                come in index_corpus(force_rebuild=True)                 *)
(*   last         the call in progress: what was called, with what, what   *)
(*                the environment did during it (the loads and saves that  *)
(*                failed, the arXiv response) and what it returned;        *)
(*                op = "idle" between calls                                *)
(***************************************************************************)
VARIABLES environ, api_key, importable, corpus, disk, constructed, index,
          retriever, singleton, writers, last

vars == << environ, api_key, importable, corpus, disk, constructed, index,
           retriever, singleton, writers, last >>

facadeVars == << environ, api_key, importable, retriever, singleton >>

indexVars == << corpus, disk, constructed, index, writers >>

\* the queries of the model: one that matches the corpus, one that does not
Queries == { <<"c","m","b">>, <<"z","z">> }

\* the provider arguments: every member, the value string of one, a string
\* that is no value (a member's name)
ProviderArgs ==
  {Member(p) : p \in Providers}
  \cup {Str(ProviderValue("ARXIV")), Str("PERPLEXITY")}

\* the max_results arguments
MaxResultsArgs == {IntArg(n) : n \in -1..MaxResults} \cup {NonIntArg}

AllMissing == [f \in IndexFiles |-> MissingFile]

AllSaved == [f \in IndexFiles |-> "ok"]

NoResponse == [ok |-> FALSE, entries |-> << >>]

NoConstruction == [index |-> EmptyIndex, disk |-> AllMissing, scanned |-> FALSE, raised |-> FALSE]

\* the state of the lazy adapters
World == [retriever |-> retriever, singleton |-> singleton, index |-> index, disk |-> disk]

\* The inputs the environment can draw for one call: the outcome of the
\* GraphRAG construction when the call can construct the retriever, the
\* arXiv response when the call can reach the arXiv adapter.
GraphInputs(needed) ==
  IF needed /\ importable["GRAPHRAG"] /\ retriever["GRAPHRAG"] = 0 /\ singleton["GRAPHRAG"] = 0
    THEN {[mkdirFails |-> TRUE, made |-> NoConstruction]}
         \cup {[mkdirFails |-> FALSE, made |-> c] : c \in GraphRAGConstructions(disk, corpus)}
    ELSE {[mkdirFails |-> FALSE, made |-> NoConstruction]}

ArxivInputs(needed) ==
  IF needed /\ importable["ARXIV"] THEN Responses ELSE {NoResponse}

Inputs(needGraph, needArxiv) ==
  {[mkdirFails |-> g.mkdirFails, made |-> g.made, response |-> r] :
     g \in GraphInputs(needGraph), r \in ArxivInputs(needArxiv)}

NoYields == [p \in Providers |-> << >>]

NoAvail == [p \in Providers |-> FALSE]

\* the callers of a concurrent reindex
Callers == {1, 2}

\* a caller that is not inside index_corpus: pc is where it stands, built
\* the index its scan produced, saving the position in SavedFiles of the
\* file it writes, raced whether another caller opened or wrote that file
\* since this caller opened it, latest whether it returned last
NotIndexing ==
  [pc |-> "idle", built |-> EmptyIndex, saving |-> 0, raced |-> FALSE, latest |-> FALSE]

Idle ==
  [op |-> "idle", query |-> << >>, provider |-> Member("DOMAIN"),
   max_results |-> IntArg(0), ret |-> << >>, invoked |-> << >>, caught |-> FALSE,
   avail |-> NoAvail, yields |-> NoYields, flag |-> FALSE,
   force |-> FALSE, result |-> [status |-> "none"], scanned |-> FALSE,
   raised |-> FALSE, ctorRaised |-> FALSE,
   seen |-> [f \in Files |-> "absent"],
   ready |-> [p \in LazyProviders |-> 0],
   before |-> [index |-> EmptyIndex, disk |-> AllMissing],
   loadFails |-> {}, saves |-> AllSaved,
   text |-> << >>, entities |-> << >>, response |-> NoResponse,
   start |-> 0, running |-> FALSE]

\* what each provider yields through the facade for the call's query, in
\* the state and with the inputs of the call
Yields(x, query, max_results) ==
  [p \in Providers |->
     retrieve(World, api_key, importable, x, query, Member(p), max_results).ret]

Avail == [p \in Providers |-> is_available(p, api_key, importable)]

\* the assignment of what a facade or adapter call left
Leave(w) ==
  /\ retriever' = w.retriever
  /\ singleton' = w.singleton
  /\ index' = w.index
  /\ disk' = w.disk
  /\ constructed' = (constructed \/ w.singleton["GRAPHRAG"] # 0)

(***************************************************************************)
(* Initial states.  The facade has been constructed: PerplexityAdapter     *)
(* read the credential.  No retriever exists yet; the index directory is   *)
(* empty.                                                                  *)
(***************************************************************************)
InitCorpora ==
  {c \in [Files -> FileStates] : \A f \in Files \ EditableFiles : c[f] = "ok"}

InitCommon ==
  /\ disk = AllMissing
  /\ constructed = FALSE
  /\ index = EmptyIndex
  /\ retriever = [p \in LazyProviders |-> 0]
  /\ singleton = [p \in LazyProviders |-> 0]
  /\ writers = [c \in Callers |-> NotIndexing]
  /\ last = Idle

Init ==
  /\ environ \in BOOLEAN
  /\ api_key = environ
  /\ importable \in [LazyProviders -> BOOLEAN]
  /\ corpus \in {c \in InitCorpora : c[1] = c[2] /\ c[1] # "unreadable"}
  /\ InitCommon

(***************************************************************************)
(* The environment.                                                        *)
(***************************************************************************)
\* PERPLEXITY_API_KEY is set or removed in os.environ
SetEnviron ==
  /\ last.op = "idle"
  /\ environ' = ~environ
  /\ UNCHANGED << api_key, importable, indexVars, retriever, singleton, last >>

\* the caller takes the result of the call
Return ==
  /\ last.op # "idle"
  /\ ~last.running
  /\ last' = Idle
  /\ UNCHANGED << facadeVars, indexVars >>

(***************************************************************************)
(* Calls on the adapters.                                                  *)
(***************************************************************************)
CallIsAvailable(p) ==
  /\ last.op = "idle"
  /\ last' = [Idle EXCEPT !.op = "is_available", !.provider = Member(p),
                          !.flag = is_available(p, api_key, importable),
                          !.ready = retriever]
  /\ UNCHANGED << facadeVars, indexVars >>

CallGetProviderName(p) ==
  /\ last.op = "idle"
  /\ last' = [Idle EXCEPT !.op = "get_provider_name", !.provider = Member(p), !.ready = retriever,
                          !.ret = << ProviderValue(p) >>]
  /\ UNCHANGED << facadeVars, indexVars >>

CallAdapterRetrieve(p, query, max_results) ==
  /\ last.op = "idle"
  /\ \E x \in Inputs(p = "GRAPHRAG", p = "ARXIV") :
     \E r \in {AdapterRetrieve(p, World, api_key, importable, x, query, max_results)} :
           /\ last' = [Idle EXCEPT !.op = "adapter_retrieve", !.provider = Member(p),
                                   !.query = query, !.max_results = max_results,
                                   !.ret = r.out.ret, !.raised = r.out.raised,
                                   !.invoked = <<p>>, !.avail = Avail,
                                   !.ctorRaised = (x.mkdirFails \/ x.made.raised), !.ready = retriever]
           /\ Leave(r.w)
  /\ UNCHANGED << environ, api_key, importable, corpus, writers >>

CallGetCorpusStats ==
  /\ last.op = "idle"
  /\ last' = [Idle EXCEPT !.op = "get_corpus_stats", !.provider = Member("GRAPHRAG"), !.ready = retriever,
                          !.result = GraphRAGCorpusStats(World, importable)]
  /\ UNCHANGED << facadeVars, indexVars >>

\* the max_results of the calls on the static domain adapter: below, at
\* and above the length of its list
DomainMaxResultsArgs == {IntArg(n) : n \in -1..MaxDomainResults} \cup {NonIntArg}

\* DomainAdapter().retrieve(query, max_results)
CallDomainRetrieve(query, max_results) ==
  /\ last.op = "idle"
  /\ \E r \in {DomainRetrieve(query, max_results)} :
       last' = [Idle EXCEPT !.op = "domain_retrieve", !.provider = Member("DOMAIN"),
                            !.query = query, !.max_results = max_results,
                            !.ret = r.ret, !.raised = r.raised,
                            !.avail = Avail]
  /\ UNCHANGED << facadeVars, indexVars >>

(***************************************************************************)
(* Calls on the indexer and on the retriever that wraps it.                *)
(***************************************************************************)
\* the queries of the search calls: those of the facade, one that the
\* second file matches better than the first, one that both match equally,
\* and the empty string
SearchQueries == Queries \cup { <<"t">>, <<" ">>, << >> }

\* the max_results of the search calls
SearchMaxResultsArgs == {IntArg(n) : n \in -1..(MaxResults + 1)} \cup {NonIntArg}

\* indexer.search(query, max_results)
CallSearch(query, max_results) ==
  /\ last.op = "idle"
  /\ constructed
  /\ \E r \in {SearchCall(index, query, max_results)} :
       last' = [Idle EXCEPT !.op = "search", !.query = query,
                            !.max_results = max_results,
                            !.ret = r.ret, !.raised = r.raised,
                            !.before = [index |-> index, disk |-> disk]]
  /\ UNCHANGED << facadeVars, indexVars >>

\* retrieve with _ensure_indexed called again before the search: an empty
\* index is rebuilt from the corpus as it is at the time of the call
CallRetrieverRetrieve_EnsuresIndexed(query, max_results) ==
  /\ last.op = "idle"
  /\ singleton["GRAPHRAG"] # 0
  /\ \E made \in {index_corpus(index, FALSE, disk, sc, AllSaved) : sc \in ScanResults(corpus)} :
     \E r \in {RetrieverRetrieveCall(made.index, query, max_results)} :
       /\ last' = [Idle EXCEPT !.op = "retriever_retrieve", !.query = query,
                               !.max_results = max_results,
                               !.ret = r.ret, !.raised = r.raised,
                               !.before = [index |-> index, disk |-> disk]]
       /\ index' = made.index
       /\ disk' = made.disk
  /\ UNCHANGED << facadeVars, corpus, constructed, writers >>

\* get_graphrag_retriever().retrieve(query, max_results), once the
\* retriever exists
CallRetrieverRetrieve(query, max_results) ==
  /\ last.op = "idle"
  /\ singleton["GRAPHRAG"] # 0
  /\ \E r \in {RetrieverRetrieveCall(index, query, max_results)} :
       last' = [Idle EXCEPT !.op = "retriever_retrieve", !.query = query,
                            !.max_results = max_results,
                            !.ret = r.ret, !.raised = r.raised,
                            !.before = [index |-> index, disk |-> disk]]
  /\ UNCHANGED << facadeVars, indexVars >>

(***************************************************************************)
(* Calls on the facade.                                                    *)
(***************************************************************************)
CallGetAvailableProviders ==
  /\ last.op = "idle"
  /\ last' = [Idle EXCEPT !.op = "get_available_providers",
                          !.ret = get_available_providers(api_key, importable),
                          !.avail = Avail]
  /\ UNCHANGED << facadeVars, indexVars >>

CallRetrieve(query, provider, max_results) ==
  /\ last.op = "idle"
  /\ \E x \in Inputs(Recognized(provider) /\ Resolve(provider) = "GRAPHRAG",
                     Recognized(provider) /\ Resolve(provider) = "ARXIV") :
     \E r \in {retrieve(World, api_key, importable, x, query, provider, max_results)} :
           /\ last' = [Idle EXCEPT !.op = "retrieve", !.provider = provider, !.raised = r.raised,
                                   !.query = query, !.max_results = max_results,
                                   !.ret = r.ret, !.invoked = r.invoked,
                                   !.caught = r.caught, !.avail = Avail,
                                   !.ctorRaised = (x.mkdirFails \/ x.made.raised), !.ready = retriever,
                                   !.yields = Yields(x, query, max_results)]
           /\ Leave(r.w)
  /\ UNCHANGED << environ, api_key, importable, corpus, writers >>

CallRetrieveWithFallback(query, provider, max_results) ==
  /\ last.op = "idle"
  /\ \E x \in Inputs(Recognized(provider), Recognized(provider)) :
     \E r \in {retrieve_with_fallback(World, api_key, importable, x, query, provider, max_results)} :
           /\ last' = [Idle EXCEPT !.op = "retrieve_with_fallback",
                                   !.provider = provider,
                                   !.query = query, !.max_results = max_results,
                                   !.ret = r.ret, !.invoked = r.invoked,
                                   !.caught = r.caught, !.avail = Avail,
                                   !.ctorRaised = (x.mkdirFails \/ x.made.raised), !.ready = retriever,
                                   !.yields = Yields(x, query, max_results)]
           /\ Leave(r.w)
  /\ UNCHANGED << environ, api_key, importable, corpus, writers >>

CallGetProviderInfo(provider) ==
  /\ last.op = "idle"
  /\ last' = [Idle EXCEPT !.op = "get_provider_info", !.provider = provider, !.ready = retriever,
                          !.result = get_provider_info(World, api_key, importable, provider)]
  /\ UNCHANGED << facadeVars, indexVars >>

\* get_arxiv_retriever(), called by the adapter or by anyone who imported
\* arxiv_rag: the first call constructs the global ArxivRAGRetriever, every
\* call returns it; no adapter is touched
GetArxivRetriever ==
  /\ last.op = "idle"
  /\ importable["ARXIV"]
  /\ singleton' = [singleton EXCEPT !["ARXIV"] = IF @ = 0 THEN TheInstance ELSE @]
  /\ last' = [Idle EXCEPT !.op = "get_arxiv_retriever", !.ready = retriever]
  /\ UNCHANGED << environ, api_key, importable, retriever, indexVars >>

Next ==
  \/ SetEnviron
  \/ Return
  \/ GetArxivRetriever
  \/ \E p \in Providers : CallIsAvailable(p)
  \/ \E p \in Providers : CallGetProviderName(p)
  \/ \E p \in Providers, q \in Queries, m \in MaxResultsArgs : CallAdapterRetrieve(p, q, m)
  \/ CallGetCorpusStats
  \/ \E q \in Queries, m \in DomainMaxResultsArgs : CallDomainRetrieve(q, m)
  \/ \E q \in SearchQueries, m \in SearchMaxResultsArgs : CallSearch(q, m)
  \/ \E q \in SearchQueries, m \in SearchMaxResultsArgs : CallRetrieverRetrieve(q, m)
  \/ CallGetAvailableProviders
  \/ \E q \in Queries, a \in ProviderArgs, m \in MaxResultsArgs : CallRetrieve(q, a, m)
  \/ \E q \in Queries, a \in ProviderArgs, m \in MaxResultsArgs : CallRetrieveWithFallback(q, a, m)
  \/ \E a \in ProviderArgs : CallGetProviderInfo(a)

Spec == Init /\ [][Next]_vars

(***************************************************************************)
(* The indexer on its own: GraphRAGIndexer is constructed over the index   *)
(* directory and index_corpus is called on it.  Other processes change the *)
(* corpus directory at any time, between the calls and while a scan runs;  *)
(* this specification does not follow them: what the file-system calls of  *)
(* a scan return (Seen) is an input of the call, kept in last.seen, and    *)
(* the variable corpus stays as it starts.                                 *)
(***************************************************************************)
\* no indexer is constructed yet, over a corpus in any state
InitIndex ==
  /\ environ = FALSE
  /\ api_key = FALSE
  /\ importable = [p \in LazyProviders |-> TRUE]
  /\ corpus \in InitCorpora
  /\ InitCommon

\* no indexer is constructed yet
InitIndexer ==
  /\ environ = FALSE
  /\ api_key = FALSE
  /\ importable = [p \in LazyProviders |-> TRUE]
  /\ corpus = [f \in Files |-> "ok"]
  /\ InitCommon

\* GraphRAGIndexer(corpus_path, index_path): the new indexer takes the
\* place of the one the caller held; when mkdir raises the constructor
\* raises and the caller keeps what it held
IndexerConstruct(mkdirFails, loadFails) ==
  /\ last.op = "idle"
  /\ IF mkdirFails
       THEN /\ last' = [Idle EXCEPT !.op = "construct", !.raised = TRUE,
                                    !.before = [index |-> index, disk |-> disk]]
            /\ UNCHANGED << constructed, index >>
       ELSE /\ last' = [Idle EXCEPT !.op = "construct", !.loadFails = loadFails,
                                    !.before = [index |-> index, disk |-> disk]]
            /\ constructed' = TRUE
            /\ index' = LoadIndex(disk, loadFails)
  /\ UNCHANGED << facadeVars, corpus, disk, writers >>

\* the inputs of one index_corpus call: what the scan sees of the corpus,
\* what it comes to and the outcomes of the saves, drawn only when the
\* call rebuilds
ScanInputs(force_rebuild) ==
  IF SkipsRebuild(index, force_rebuild)
    THEN {[seen |-> corpus, scan |-> [raised |-> FALSE, built |-> EmptyIndex], saves |-> AllSaved]}
    ELSE UNION {UNION {{[seen |-> c, scan |-> sc, saves |-> sv] :
                          sv \in IF sc.raised THEN {AllSaved} ELSE SaveFaults} :
                       sc \in ScanResults(c)} :
                c \in Seen(corpus)}

CallIndexCorpus(force_rebuild) ==
  /\ last.op = "idle"
  /\ constructed
  /\ \E s \in ScanInputs(force_rebuild) :
     \E r \in {index_corpus(index, force_rebuild, disk, s.scan, s.saves)} :
           /\ index' = r.index
           /\ disk' = r.disk
           /\ last' = [Idle EXCEPT !.op = "index_corpus", !.force = force_rebuild,
                                   !.result = r.result, !.scanned = r.scanned,
                                   !.raised = r.raised,
                                   !.saves = s.saves, !.seen = s.seen,
                                   !.before = [index |-> index, disk |-> disk]]
  /\ UNCHANGED << facadeVars, corpus, constructed, writers >>

\* a file of the corpus directory is written, removed, made unreadable or
\* replaced by a symbolic link to nothing
EditCorpus(f, st) ==
  /\ last.op = "idle"
  /\ corpus[f] # st
  /\ corpus' = [corpus EXCEPT ![f] = st]
  /\ UNCHANGED << facadeVars, disk, constructed, index, writers, last >>

NextIndex ==
  \/ Return
  \/ \E mk \in BOOLEAN, lf \in SUBSET IndexFiles : IndexerConstruct(mk, lf)
  \/ \E force \in BOOLEAN : CallIndexCorpus(force)
  \/ \E q \in SearchQueries, m \in SearchMaxResultsArgs : CallSearch(q, m)

SpecIndex == InitIndexer /\ [][NextIndex]_vars

(***************************************************************************)
(* Two callers reindex the same index directory at the same time, each     *)
(* with an indexer of its own and with no lock between them.  A call is    *)
(* the scan, then for each of the three files the open (which truncates    *)
(* the file) and the dump.  The writes succeed; when two callers have the  *)
(* same file open and both write it, what the file holds afterwards is not *)
(* determined: the text of the later dump, or bytes of both.               *)
(***************************************************************************)
\* the order of the three saves of index_corpus
SavedFiles == << "documents", "entities", "relationships" >>

\* the other callers that have the file of caller c open
Overlapping(c) ==
  {d \in Callers \ {c} : writers[d].pc = "dump" /\ writers[d].saving = writers[c].saving}

\* index_corpus(force_rebuild=True) up to the assignments of the new
\* index; a call whose filter raises leaves its caller where it was
ReindexScan(c) ==
  /\ last.op = "idle"
  /\ writers[c].pc = "idle"
  /\ \E seen \in Seen(corpus) : \E sc \in ScanResults(seen) :
       IF sc.raised
         THEN UNCHANGED writers
         ELSE writers' = [writers EXCEPT ![c] = [NotIndexing EXCEPT !.pc = "open", !.built = sc.built, !.saving = 1]]
  /\ UNCHANGED << facadeVars, corpus, disk, constructed, index, last >>

\* open(file_path, 'w') of _save_json: the file is truncated
SaveOpen(c) ==
  /\ writers[c].pc = "open"
  /\ disk' = [disk EXCEPT ![SavedFiles[writers[c].saving]] = CorruptFile]
  /\ writers' = [d \in Callers |->
                   IF d = c THEN [writers[c] EXCEPT !.pc = "dump", !.raced = FALSE]
                   ELSE IF d \in Overlapping(c) THEN [writers[d] EXCEPT !.raced = TRUE]
                   ELSE writers[d]]
  /\ UNCHANGED << facadeVars, corpus, constructed, index, last >>

\* json.dump and the close of _save_json; after the third file the call
\* returns
SaveDump(c) ==
  /\ writers[c].pc = "dump"
  /\ \E file \in {[state |-> "ok", data |-> writers[c].built[SavedFiles[writers[c].saving]]]}
                 \cup (IF writers[c].raced THEN {CorruptFile} ELSE {}) :
       disk' = [disk EXCEPT ![SavedFiles[writers[c].saving]] = file]
  /\ writers' = [d \in Callers |->
                   IF d = c
                     THEN IF writers[c].saving < Len(SavedFiles)
                            THEN [writers[c] EXCEPT !.pc = "open", !.saving = @ + 1]
                            ELSE [writers[c] EXCEPT !.pc = "done", !.latest = TRUE]
                   ELSE IF d \in Overlapping(c) THEN [writers[d] EXCEPT !.raced = TRUE]
                   ELSE IF writers[c].saving = Len(SavedFiles)
                     THEN [writers[d] EXCEPT !.latest = FALSE]
                   ELSE writers[d]]
  /\ UNCHANGED << facadeVars, corpus, constructed, index, last >>

NextReindex ==
  \/ \E c \in Callers : ReindexScan(c)
  \/ \E c \in Callers : SaveOpen(c)
  \/ \E c \in Callers : SaveDump(c)
  \/ \E f \in EditableFiles, st \in FileStates : EditCorpus(f, st)

SpecReindex == InitIndex /\ [][NextReindex]_vars

(***************************************************************************)
(* The text analysis and the arXiv client on their own: the relationship   *)
(* extraction is applied to texts around the length of the co-occurrence   *)
(* window, the arXiv search to the responses a request can come to.        *)
(***************************************************************************)
\* the longest filler of the texts
MaxPad == 96

\* the largest number of entries of a feed the client is given
MaxFeedLen == 2

\* n filler characters
Pad(n) == [i \in 1..n |-> "x"]

\* what stands between the two terms of a text: a space, or the end of a
\* sentence
Separators == { <<" ">>, <<".">>, <<"?","!">> }

\* The texts: two terms, CMB and Planck, with the filler between them,
\* before them or after them, so that the terms are the two ends of the
\* text, its tail or its head.
Texts ==
  {<<"C","M","B">> \o sep \o Pad(n) \o <<"P","l","a","n","c","k">> : sep \in Separators, n \in (WindowLen - 14)..MaxPad}
  \cup {Pad(n) \o <<"C","M","B">> \o sep \o <<"P","l","a","n","c","k">> : sep \in Separators, n \in (WindowLen - 14)..MaxPad}
  \cup {<<"C","M","B">> \o sep \o <<"P","l","a","n","c","k">> \o Pad(n) : sep \in Separators, n \in (WindowLen - 14)..MaxPad}

\* the ways a request can fail before the entries are parsed: requests.get
\* raises, raise_for_status raises, ET.fromstring raises
RequestFaults == {"network", "status", "xml"}

\* the feeds of at most n entries over the given kinds of entry
RECURSIVE FeedsOver(_, _)
FeedsOver(kinds, n) ==
  IF n = 0 THEN {<< >>}
  ELSE FeedsOver(kinds, n - 1) \cup
       {Append(s, FeedEntry(k)) : s \in {t \in FeedsOver(kinds, n - 1) : Len(t) = n - 1}, k \in kinds}

\* what a request of the client can come to
ClientResponses ==
  {[ok |-> FALSE, fault |-> ft, entries |-> << >>] : ft \in RequestFaults}
  \cup {[ok |-> TRUE, fault |-> "none", entries |-> s] : s \in FeedsOver(1..6, MaxFeedLen)}

InitParts ==
  /\ environ = FALSE
  /\ api_key = FALSE
  /\ importable = [p \in LazyProviders |-> TRUE]
  /\ corpus = [f \in Files |-> "absent"]
  /\ InitCommon

\* entities = self._extract_entities(content)
\* relationships = self._extract_relationships(content, entities)
CallExtractRelationships(text) ==
  /\ last.op = "idle"
  /\ \E es \in _extract_entities(text) :
       last' = [Idle EXCEPT !.op = "extract_relationships", !.text = text,
                            !.entities = es,
                            !.ret = _extract_relationships(text, es)]
  /\ UNCHANGED << facadeVars, indexVars >>

\* ArxivRetriever().search(query) with the request coming to response
CallArxivSearch(response) ==
  /\ last.op = "idle"
  /\ last' = [Idle EXCEPT !.op = "arxiv_search", !.response = response,
                          !.ret = ArxivSearch(response)]
  /\ UNCHANGED << facadeVars, indexVars >>

NextParts ==
  \/ Return
  \/ \E text \in Texts : CallExtractRelationships(text)
  \/ \E response \in ClientResponses : CallArxivSearch(response)

SpecParts == InitParts /\ [][NextParts]_vars

(***************************************************************************)
(* The global retriever on its own: get_graphrag_retriever() constructs    *)
(* the one GraphRAGRetriever, the corpus changes afterwards, and the       *)
(* retriever and its indexer are only read.                                *)
(***************************************************************************)
\* the entities asked for: two the corpus holds, one it does not
EntityArgs ==
  { <<"c","o","n","c","e","p","t",":","C","M","B">>,
    <<"c","o","n","c","e","p","t",":","C","A","M","B">>,
    <<"c","o","n","c","e","p","t",":","H","0">> }

\* get_graphrag_retriever(), first call: GraphRAGRetriever() constructs the
\* indexer and indexes the corpus when no document was loaded
GetGraphragRetriever(mkdirFails) ==
  /\ last.op = "idle"
  /\ singleton["GRAPHRAG"] = 0
  /\ IF mkdirFails
       THEN /\ last' = [Idle EXCEPT !.op = "get_graphrag_retriever", !.raised = TRUE,
                                    !.ctorRaised = TRUE,
                                    !.before = [index |-> index, disk |-> disk]]
            /\ UNCHANGED << singleton, index, disk, constructed >>
       ELSE \E seen \in Seen(corpus) : \E made \in GraphRAGConstructions(disk, seen) :
              IF made.raised
                THEN /\ last' = [Idle EXCEPT !.op = "get_graphrag_retriever", !.raised = TRUE,
                                             !.ctorRaised = TRUE, !.scanned = TRUE,
                                             !.seen = seen,
                                             !.before = [index |-> index, disk |-> disk]]
                     /\ UNCHANGED << singleton, index, disk, constructed >>
                ELSE /\ singleton' = [singleton EXCEPT !["GRAPHRAG"] = TheInstance]
                     /\ index' = made.index
                     /\ disk' = made.disk
                     /\ constructed' = TRUE
                     /\ last' = [Idle EXCEPT !.op = "get_graphrag_retriever",
                                             !.scanned = made.scanned,
                                             !.seen = seen,
                                             !.before = [index |-> index, disk |-> disk]]
  /\ UNCHANGED << environ, api_key, importable, corpus, retriever, writers >>

\* indexer.get_entity_info(entity)
CallGetEntityInfo(entity) ==
  /\ last.op = "idle"
  /\ constructed
  /\ last' = [Idle EXCEPT !.op = "get_entity_info", !.query = entity,
                          !.result = get_entity_info(index, entity),
                          !.before = [index |-> index, disk |-> disk]]
  /\ UNCHANGED << facadeVars, indexVars >>

\* get_graphrag_retriever().get_corpus_stats()
CallRetrieverStats ==
  /\ last.op = "idle"
  /\ singleton["GRAPHRAG"] # 0
  /\ last' = [Idle EXCEPT !.op = "retriever_stats",
                          !.result = RetrieverStats(index),
                          !.before = [index |-> index, disk |-> disk]]
  /\ UNCHANGED << facadeVars, indexVars >>

NextRetriever ==
  \/ Return
  \/ \E mk \in BOOLEAN : GetGraphragRetriever(mk)
  \/ \E f \in EditableFiles, st \in FileStates : EditCorpus(f, st)
  \/ \E q \in SearchQueries, m \in SearchMaxResultsArgs : CallSearch(q, m)
  \/ \E q \in SearchQueries, m \in SearchMaxResultsArgs : CallRetrieverRetrieve(q, m)
  \/ \E e \in EntityArgs : CallGetEntityInfo(e)
  \/ CallRetrieverStats

SpecRetriever == InitIndex /\ [][NextRetriever]_vars

(***************************************************************************)
(* _get_match_context step by step: a call enters the loop with start = 0  *)
(* and no match; every step is one iteration of `while True`, which either *)
(* leaves the loop or appends a context and moves start.  last.text is     *)
(* the content preview, last.ret the list matches, last.start the variable *)
(* start, last.running whether the call is inside the loop.                *)
(***************************************************************************)
\* the longest filler of the previews
MaxContextPad == 150

\* the previews: empty, shorter than a window, with whitespace at an end,
\* with more than three occurrences, with overlapping occurrences, longer
\* than two windows with the match in the middle, with whitespace where a
\* window begins and ends, and with U+0130 before the match
Previews ==
  { << >>,
    <<"a">>,
    <<"a","a","a","a">>,
    <<"C","M","B"," ","d","a","t","a","\n">>,
    <<"c","m","b"," ","c","m","b"," ","c","m","b"," ","c","m","b"," ">>,
    Pad(MaxContextPad) \o <<"c","m","b">> \o Pad(MaxContextPad),
    Pad(MaxContextPad - WindowLen) \o <<" ">> \o Pad(WindowLen - 1) \o <<"c","m","b">>
      \o Pad(WindowLen - 1) \o <<" ">> \o Pad(MaxContextPad - WindowLen),
    << DottedI >> \o Pad(MaxContextPad) \o <<"c","m","b">> \o Pad(MaxContextPad),
    [i \in 1..(WindowLen + 10) |-> DottedI] \o <<"c","m","b">> \o Pad(2 * WindowLen + 20) }

\* the queries: those of the searches and one that overlaps itself
ContextQueries == SearchQueries \cup { <<"a","a">>, <<"C","M","B">> }

\* indexer._get_match_context({"content": content}, query) is entered
StartMatchContext(content, query) ==
  /\ last.op = "idle"
  /\ last' = [Idle EXCEPT !.op = "get_match_context", !.text = content,
                          !.query = query, !.start = 0, !.running = TRUE]
  /\ UNCHANGED << facadeVars, indexVars >>

\* the iteration with `start = pos` in place of `start = pos + 1`: the
\* next search finds the same occurrence again
MatchContextStep_StartAtMatch ==
  /\ last.op = "get_match_context"
  /\ last.running
  /\ \E content_lower \in {Lower(last.text)}, query_lower \in {Lower(last.query)} :
     \E pos \in {Find(content_lower, query_lower, last.start)} :
       IF pos = -1
         THEN last' = [last EXCEPT !.running = FALSE]
         ELSE last' = [last EXCEPT !.ret = Append(@, ContextAt(last.text, last.query, pos)),
                                   !.start = pos,
                                   !.running = (Len(last.ret) + 1 < 3)]
  /\ UNCHANGED << facadeVars, indexVars >>

\* one iteration of the loop of lines 274-288
MatchContextStep ==
  /\ last.op = "get_match_context"
  /\ last.running
  /\ \E content_lower \in {Lower(last.text)}, query_lower \in {Lower(last.query)} :
     \E pos \in {Find(content_lower, query_lower, last.start)} :
       IF pos = -1
         THEN last' = [last EXCEPT !.running = FALSE]
         ELSE last' = [last EXCEPT !.ret = Append(@, ContextAt(last.text, last.query, pos)),
                                   !.start = pos + 1,
                                   !.running = (Len(last.ret) + 1 < 3)]
  /\ UNCHANGED << facadeVars, indexVars >>

NextContext ==
  \/ Return
  \/ \E content \in Previews, query \in ContextQueries : StartMatchContext(content, query)
  \/ MatchContextStep

SpecContext == InitParts /\ [][NextContext]_vars

\* the loop is left in the end: a step is taken whenever one is possible
FairContext == SpecContext /\ WF_vars(MatchContextStep)

(***************************************************************************)
(* Properties of the facade, checked under Spec.  A call is read from      *)
(* last: its arguments, what it returned, the adapters it invoked, and     *)
(* what every provider was and yielded when it was made.                   *)
(***************************************************************************)
\* the positions in the declaration order of the providers other than the
\* preferred one that are available and yield a non-empty list
OtherYielding ==
  IF ~Recognized(last.provider) THEN {}
  ELSE {k \in 1..Len(RAGProvider) :
          /\ RAGProvider[k] # Resolve(last.provider)
          /\ last.avail[RAGProvider[k]]
          /\ last.yields[RAGProvider[k]] # << >>}

FallbackCase ==
  /\ last.op = "retrieve_with_fallback"
  /\ Recognized(last.provider)
  /\ last.yields[Resolve(last.provider)] = << >>
  /\ OtherYielding # {}

\* C1: when the preferred provider, given as a member or as the value of
\* one, yields an empty list and some other available provider yields a
\* non-empty one, retrieve_with_fallback returns the list of the first such
\* provider in the declaration order.
C1_FallbackReturnsFirstNonEmpty ==
  FallbackCase => last.ret = last.yields[RAGProvider[Min(OtherYielding)]]

\* two other providers yield something and the call returned the first's
C1_Witness ==
  /\ FallbackCase
  /\ Cardinality(OtherYielding) >= 2
  /\ last.ret # << >>
  /\ Len(last.invoked) >= 2

AllAvailableYieldNothing ==
  \A p \in Providers : last.avail[p] => last.yields[p] = << >>

\* C2 as stated: for every preferred_provider argument, member or string,
\* retrieve_with_fallback returns an empty list only if every available
\* provider yields nothing.
C2_EmptyOnlyIfNothingYields ==
  (last.op = "retrieve_with_fallback" /\ last.ret = << >>)
    => AllAvailableYieldNothing

\* C2 amended: for every preferred_provider argument that names a provider
\* (a member, or a string that is the value of one), retrieve_with_fallback
\* returns an empty list only if every available provider yields nothing.
C2_EmptyOnlyIfNothingYieldsForNamedProvider ==
  (last.op = "retrieve_with_fallback" /\ Recognized(last.provider) /\ last.ret = << >>)
    => AllAvailableYieldNothing

\* an empty list came back after the preferred provider and another
\* available one were tried
C2_Witness ==
  /\ last.op = "retrieve_with_fallback"
  /\ Recognized(last.provider)
  /\ last.ret = << >>
  /\ Len(last.invoked) >= 2

\* C3: the availability a call reports for the web-search provider is the
\* state of PERPLEXITY_API_KEY at the time of the call, whether the
\* credential was set or removed since the adapters were constructed.
C3_AvailabilityFollowsCredential ==
  /\ (last.op = "is_available" /\ last.provider = Member("PERPLEXITY"))
       => (last.flag <=> environ)
  /\ last.op = "get_available_providers"
       => (("PERPLEXITY" \in Range(last.ret)) <=> environ)
  /\ (last.op = "retrieve" /\ last.provider = Member("PERPLEXITY"))
       => ((last.ret # << >>) <=> environ)

\* C4: UnifiedRAGAdapter.retrieve never raises: for a string that names no
\* provider it returns an empty list and invokes no adapter, and when the
\* adapter it selected raises it returns an empty list.
C4_RetrieveNeverRaises ==
  last.op = "retrieve" =>
    /\ ~last.raised
    /\ ~Recognized(last.provider) => (last.ret = << >> /\ last.invoked = << >>)
    /\ last.caught => last.ret = << >>

\* the selected adapter raised and the caller got an empty list
C4_Witness ==
  /\ last.op = "retrieve"
  /\ last.caught
  /\ last.invoked # << >>
  /\ last.ret = << >>

\* C5: when the selected provider is not available at the time of the
\* call, UnifiedRAGAdapter.retrieve returns an empty list and does not
\* invoke the adapter's retrieve; the web-search placeholder comes back
\* only when the adapter is available.
C5_UnavailableIsNotInvoked ==
  (last.op = "retrieve" /\ Recognized(last.provider)) =>
    /\ ~last.avail[Resolve(last.provider)]
         => (last.ret = << >> /\ last.invoked = << >>)
    /\ (Resolve(last.provider) = "PERPLEXITY" /\ last.ret # << >>)
         => last.avail["PERPLEXITY"]

\* web search was asked for without a credential
C5_Witness ==
  /\ last.op = "retrieve"
  /\ last.provider = Member("PERPLEXITY")
  /\ ~last.avail["PERPLEXITY"]
  /\ last.max_results = IntArg(1)
  /\ last.ret = << >>

AdapterCalls == {"adapter_retrieve", "retrieve", "retrieve_with_fallback"}

Uninitialized == \A p \in LazyProviders : retriever[p] = 0

\* C6 as stated: a lazily constructed adapter holds its backing retriever
\* after its first retrieve or is_available call.
C6_ReadyAfterFirstCall ==
  \A p \in LazyProviders :
    (last.op \in {"is_available", "adapter_retrieve"} /\ last.provider = Member(p))
      => retriever[p] # 0

\* what the calls on the lazy adapters leave: is_available constructs
\* nothing; a retrieve that reached the adapter while its module could be
\* imported, and whose construction of the retriever did not raise, leaves
\* the adapter with its retriever
LazyAfterCall ==
  /\ last.op = "is_available" => retriever = last.ready
  /\ \A p \in LazyProviders :
       (/\ last.op \in AdapterCalls
        /\ p \in Range(last.invoked)
        /\ last.avail[p]
        /\ ~last.ctorRaised)
         => retriever[p] # 0

\* C6 amended: each lazily constructed adapter starts without a backing
\* retriever; is_available never constructs it; the adapter holds it after
\* the first retrieve call made while its module can be imported and whose
\* construction of the retriever does not raise.
C6_ReadyAfterFirstSuccessfulRetrieve == Uninitialized /\ []LazyAfterCall

\* the first retrieve on the local-corpus adapter constructed its retriever
C6_Witness ==
  /\ last.op = "adapter_retrieve"
  /\ last.provider = Member("GRAPHRAG")
  /\ last.ready["GRAPHRAG"] = 0
  /\ retriever["GRAPHRAG"] # 0

\* C7: an adapter that holds a backing retriever keeps that retriever
\* through every call, failing ones included.
C7_ReadyIsTerminal ==
  [][\A p \in LazyProviders : retriever[p] # 0 => retriever'[p] = retriever[p]]_vars

\* a retrieve on the local-corpus adapter failed (a max_results that is no
\* integer, over an index with documents) when the adapter already held
\* its retriever, and the adapter still holds it
C7_Witness ==
  /\ last.op = "adapter_retrieve"
  /\ last.provider = Member("GRAPHRAG")
  /\ last.ready["GRAPHRAG"] # 0
  /\ ~last.max_results.isInt
  /\ index.documents # << >>
  /\ last.ret = << >>
  /\ retriever["GRAPHRAG"] = last.ready["GRAPHRAG"]

(***************************************************************************)
(* Properties of the indexer, checked under SpecIndex.  last.before is the *)
(* index in memory and the three files as the call found them.             *)
(***************************************************************************)
\* C8: index_corpus(force_rebuild=False) on an index that holds documents
\* returns status "skipped", scans nothing, and leaves the documents, the
\* entities, the relationships and the three index files as they were.
C8_SkipLeavesEverything ==
  (/\ last.op = "index_corpus"
   /\ ~last.force
   /\ last.before.index.documents # << >>)
    => /\ last.result.status = "skipped"
       /\ ~last.scanned
       /\ index = last.before.index
       /\ disk = last.before.disk

\* index_corpus(False) was called on an index with documents while the
\* files on disk did not hold that index
C8_Witness ==
  /\ last.op = "index_corpus"
  /\ ~last.force
  /\ last.before.index.documents # << >>
  /\ last.result.status = "skipped"
  /\ disk["documents"].state # "ok"

\* C9: every index_corpus call returns a record with a status and the
\* documents, entities and relationships counts of the index in memory.
C9_ResultHasStatusAndCounts ==
  last.op = "index_corpus" =>
    /\ DOMAIN last.result = {"status", "documents", "entities", "relationships"}
    /\ last.result.documents = Len(index.documents)
    /\ last.result.entities = Len(index.entities)
    /\ last.result.relationships = Len(index.relationships)

\* C10: in every state of a constructed indexer, every doc id listed under
\* an entity is the id of a document of the index.
C10_EntitiesReferenceDocuments ==
  constructed =>
    \A k \in 1..Len(index.entities) :
      \A d \in Range(index.entities[k].docs) :
        \E j \in 1..Len(index.documents) : index.documents[j].id = d

\* what an indexer constructed next over the index directory loads
NextLoad(dsk) == LoadIndex(dsk, {})

\* C11: a rebuild persists the index atomically: an indexer constructed
\* after an index_corpus rebuild, one of whose saves may have failed, loads
\* either all three of documents, entities and relationships as that
\* rebuild wrote them, or all three as they were before it; never a mix.
C11_RebuildPersistsAtomically ==
  (last.op = "index_corpus" /\ last.scanned) =>
    \/ \A f \in IndexFiles : NextLoad(disk)[f] = index[f]
    \/ \A f \in IndexFiles : NextLoad(disk)[f] = NextLoad(last.before.disk)[f]

(***************************************************************************)
(* Properties of the concurrent reindex, checked under SpecReindex.        *)
(***************************************************************************)
\* C12: when two callers have run a full reindex on the same index
\* directory at the same time and both have returned, the three files are
\* all the ones one caller wrote, the caller that returned last.
C12_LastWriterWinsAsAWhole ==
  (\A c \in Callers : writers[c].pc = "done") =>
    \E c \in Callers :
      /\ writers[c].latest
      /\ \A f \in IndexFiles : disk[f] = [state |-> "ok", data |-> writers[c].built[f]]

(***************************************************************************)
(* Properties of search.  last.ret is the list the call returned, index    *)
(* the index it searched.                                                  *)
(***************************************************************************)
\* the position of a returned document in the documents mapping
DocPos(doc) == CHOOSE k \in 1..Len(index.documents) : index.documents[k].id = doc.id

\* a search call that returned, with an integer max_results >= 0
SearchReturned ==
  /\ last.op = "search"
  /\ ~last.raised
  /\ last.max_results.isInt
  /\ last.max_results.n >= 0

\* C13: search returns at most max_results entries (max_results >= 0), in
\* the order of non-increasing score, and two returned documents of equal
\* score in the insertion order of the documents mapping.
C13_SearchOrdersByScoreThenInsertion ==
  SearchReturned =>
    /\ Len(last.ret) <= last.max_results.n
    /\ \A i, j \in 1..Len(last.ret) :
         i < j =>
           /\ last.ret[i].score >= last.ret[j].score
           /\ last.ret[i].score = last.ret[j].score
                => DocPos(last.ret[i].document) < DocPos(last.ret[j].document)

\* the document inserted second scored higher and came back first
C13_Witness ==
  /\ SearchReturned
  /\ Len(last.ret) = 2
  /\ last.ret[1].score > last.ret[2].score
  /\ DocPos(last.ret[1].document) > DocPos(last.ret[2].document)

\* two documents of equal score came back in insertion order
C13_TieReached ==
  /\ SearchReturned
  /\ Len(last.ret) = 2
  /\ last.ret[1].score = last.ret[2].score

\* whether the text has the query as a substring, case ignored
Matches(query, text) == Contains(Lower(query), Lower(text))

\* the score as the scoring rule states it: 2 for the content preview, 1
\* for each entity string, 1 for the filename
StatedScore(doc, query) ==
  (IF Matches(query, doc.content) THEN 2 ELSE 0)
  + Cardinality({k \in DOMAIN doc.entities : Matches(query, doc.entities[k])})
  + (IF Matches(query, doc.filename) THEN 1 ELSE 0)

\* C14: every entry search returns carries the stated score of its
\* document, which is greater than 0; and when max_results does not cut the
\* list short, a document is returned exactly when its stated score is
\* greater than 0.
C14_ScoreIsAdditive ==
  SearchReturned =>
    /\ \A i \in 1..Len(last.ret) :
         /\ last.ret[i].score = StatedScore(last.ret[i].document, last.query)
         /\ last.ret[i].score > 0
         /\ \E k \in 1..Len(index.documents) : index.documents[k] = last.ret[i].document
    /\ last.max_results.n >= Len(index.documents) =>
         \A k \in 1..Len(index.documents) :
           StatedScore(index.documents[k], last.query) > 0
             <=> \E i \in 1..Len(last.ret) : last.ret[i].document = index.documents[k]

\* a search over two documents returned both: the first, with two
\* entities of which one matches, scored 2 + 1 + 1 for content, entity and
\* filename; the second, whose filename does not match, scored 2 + 1
C14_Witness ==
  /\ SearchReturned
  /\ Len(last.ret) = 2
  /\ last.ret[1].score = 4
  /\ Len(last.ret[1].document.entities) = 2
  /\ Matches(last.query, last.ret[1].document.filename)
  /\ last.ret[2].score = 3
  /\ ~Matches(last.query, last.ret[2].document.filename)

\* a search over two documents returned nothing: both scored 0
C14_NoneMatches ==
  /\ SearchReturned
  /\ last.max_results.n >= 2
  /\ Len(index.documents) = 2
  /\ last.ret = << >>

\* C15: on an indexer with zero documents, search and the retriever's
\* retrieve return an empty list and raise nothing, for every query, the
\* empty string included, and every max_results.
C15_EmptyIndexYieldsNothing ==
  (last.op \in {"search", "retriever_retrieve"} /\ index.documents = << >>)
    => (~last.raised /\ last.ret = << >>)

\* the retriever over an index without documents was asked for the empty
\* string
C15_Witness ==
  /\ last.op = "retriever_retrieve"
  /\ index.documents = << >>
  /\ last.query = << >>
  /\ last.ret = << >>
  /\ ~last.raised

(***************************************************************************)
(* Properties of the text analysis and of the arXiv client, checked under  *)
(* SpecParts.                                                              *)
(***************************************************************************)
\* both terms occur, case ignored, in one sentence of the text, or inside
\* one window of WindowLen consecutive characters of it
StatedCoOccur(text, term1, term2) ==
  \/ \E k \in 1..Len(SplitSentences(text)) :
       /\ Matches(term1, SplitSentences(text)[k])
       /\ Matches(term2, SplitSentences(text)[k])
  \/ \E i \in 0..(Len(text) - WindowLen) :
       /\ Matches(term1, Slice(text, i, i + WindowLen))
       /\ Matches(term2, Slice(text, i, i + WindowLen))

\* C16: for every unordered pair of entities extracted from a document, a
\* co_occurs_with relationship is recorded whenever both terms occur in the
\* same sentence or inside any window of 100 consecutive characters of the
\* raw text, wherever the window starts and however long the text is.
C16_CoOccurrenceIsRecorded ==
  last.op = "extract_relationships" =>
    \A i, j \in 1..Len(last.entities) :
      (i < j /\ StatedCoOccur(last.text, Term(last.entities[i]), Term(last.entities[j])))
        => \E k \in 1..Len(last.ret) :
             /\ {last.ret[k].source, last.ret[k].target} = {last.entities[i], last.entities[j]}
             /\ last.ret[k].type = "co_occurs_with"

(***************************************************************************)
(* Properties of the failure policy of the indexer, checked under          *)
(* SpecIndex.                                                              *)
(***************************************************************************)
\* the files the scan of the last call listed and could read (last.seen is
\* the corpus as that scan saw it)
ReadableFiles ==
  {f \in UNION {Range(fs) : fs \in files_to_process(last.seen)} : last.seen[f] = "ok"}

\* C17: when corpus files cannot be read during a rebuild, index_corpus
\* still returns status "success"; the unreadable files are skipped and the
\* documents are exactly the files of the scan that could be read.
C17_UnreadableFilesAreSkipped ==
  (last.op = "index_corpus" /\ last.scanned) =>
    /\ last.result.status = "success"
    /\ {index.documents[k].path : k \in 1..Len(index.documents)} = {PathStr(f) : f \in ReadableFiles}
    /\ Len(index.documents) = Cardinality(ReadableFiles)
    /\ last.result.documents = Cardinality(ReadableFiles)

\* the first file of the scan could not be opened and the second was
\* indexed
C17_OpenFailureSkipped ==
  /\ last.op = "index_corpus"
  /\ last.scanned
  /\ \E fs \in files_to_process(last.seen) :
       /\ Len(fs) = 2
       /\ last.seen[fs[1]] = "unreadable"
       /\ Len(index.documents) = 1
       /\ index.documents[1].path = PathStr(fs[2])

\* C18: a load failure at construction is treated as no index and a save
\* failure during index_corpus is dropped: the constructor gives the file
\* that could not be loaded its default and does not raise; an
\* index_corpus whose scan of the corpus went through returns "success"
\* with the index it built in memory, whichever saves failed, and a file
\* whose save failed is as it was or unparseable.
C18_LoadAndSaveFailuresAreSwallowed ==
  /\ (last.op = "construct" /\ last.loadFails # {}) =>
       /\ ~last.raised
       /\ constructed
       /\ \A f \in IndexFiles :
            index[f] = IF f \in last.loadFails \/ last.before.disk[f].state # "ok"
                         THEN << >> ELSE last.before.disk[f].data
  /\ (last.op = "index_corpus" /\ last.scanned /\ ~ScanRaises(last.seen)) =>
       /\ ~last.raised
       /\ last.result = SuccessResult(index)
       /\ \A f \in IndexFiles :
            disk[f] = CASE last.saves[f] = "ok" -> [state |-> "ok", data |-> index[f]]
                        [] last.saves[f] = "open_failed" -> last.before.disk[f]
                        [] last.saves[f] = "dump_failed" -> CorruptFile

\* the documents file held an index and could not be loaded: the indexer
\* was constructed without documents
C18_Witness ==
  /\ last.op = "construct"
  /\ "documents" \in last.loadFails
  /\ last.before.disk["documents"].state = "ok"
  /\ last.before.disk["documents"].data # << >>
  /\ index.documents = << >>
  /\ ~last.raised

\* a rebuild whose save of the documents failed returned "success"
C18_SaveDropped ==
  /\ last.op = "index_corpus"
  /\ last.saves["documents"] = "dump_failed"
  /\ last.result.status = "success"
  /\ index.documents # << >>
  /\ disk["documents"] = CorruptFile

\* C19: ArxivRetriever.search returns an empty list whenever anything
\* raises during the call: the request, the status check, the XML parser,
\* or the parse of any one entry, even when other entries of the feed parse.
C19_AnyFailureYieldsEmptyList ==
  last.op = "arxiv_search" =>
    /\ ~last.raised
    /\ (\/ last.response.fault # "none"
        \/ \E k \in 1..Len(last.response.entries) : ParseRaises(last.response.entries[k]))
         => last.ret = << >>
    /\ last.ret # << >> => Len(last.ret) = Len(last.response.entries)

\* a feed of two entries, the first of which parses and the second of
\* which does not, gave an empty list
C19_Witness ==
  /\ last.op = "arxiv_search"
  /\ last.response.fault = "none"
  /\ Len(last.response.entries) = 2
  /\ ~ParseRaises(last.response.entries[1])
  /\ ParseRaises(last.response.entries[2])
  /\ last.ret = << >>

\* the request itself failed
C19_RequestFailed ==
  /\ last.op = "arxiv_search"
  /\ last.response.fault = "network"
  /\ last.ret = << >>

\* C20: for every parsed arXiv entry, doi is present exactly when an arXiv
\* id was recovered, the id comes from the abstract-page link and never
\* from the PDF link, and doi is then "10.48550/arXiv." followed by the id;
\* without an id doi is None, never an empty string.
C20_DoiOnlyFromAbstractId ==
  last.op = "arxiv_search" =>
    \A k \in 1..Len(last.ret) :
      /\ last.ret[k].doi # None <=> last.ret[k].arxiv_id # None
      /\ last.ret[k].doi # << >>
      /\ last.ret[k].arxiv_id # None =>
           /\ last.ret[k].doi = <<"1","0",".","4","8","5","5","0","/","a","r","X","i","v",".">> \o last.ret[k].arxiv_id
           /\ last.ret[k].abstract_url # None
           /\ Contains(<<"a","b","s","/">> \o last.ret[k].arxiv_id, last.ret[k].abstract_url)
      /\ last.ret[k].abstract_url = None => last.ret[k].arxiv_id = None
      /\ (last.ret[k].abstract_url # None /\ ArxivIdOf(last.ret[k].abstract_url) # None)
           => last.ret[k].arxiv_id = ArxivIdOf(last.ret[k].abstract_url)

\* a feed gave the entry of the repository's test, with the DOI made from
\* the id of its abstract page, and an entry whose only link is a PDF link
\* with an id in it, without a DOI
C20_Witness ==
  /\ last.op = "arxiv_search"
  /\ Len(last.ret) = 2
  /\ last.ret[1].doi = <<"1","0",".","4","8","5","5","0","/","a","r","X","i","v",".","2","3","0","1",".","0","0","0","0","1">>
  /\ last.ret[2].pdf_url # None
  /\ ArxivIdOf(last.ret[2].pdf_url) # None
  /\ last.ret[2].doi = None

(***************************************************************************)
(* The static adapters and the facade over them.                           *)
(***************************************************************************)
\* the titles of the fixed list of the domain adapter, in its order
DomainTitles ==
  << << "Planck Mission Context" >>,
     << "CAMB (Code for Anisotropies in the Microwave Background)" >>,
     << "CLASSY (Cosmic Linear Anisotropy Solving System)" >> >>

\* C21: the static domain adapter is available in every state, and
\* DomainAdapter.retrieve(query, max_results) returns, whatever the query,
\* the first min(max_results, 3) entries of the fixed list of three
\* documents in their order, for every max_results >= 0.
C21_DomainReturnsFixedPrefix ==
  /\ is_available("DOMAIN", api_key, importable)
  /\ (last.op = "is_available" /\ last.provider = Member("DOMAIN")) => last.flag
  /\ (last.op = "domain_retrieve" /\ last.max_results.isInt /\ last.max_results.n >= 0) =>
       /\ ~last.raised
       /\ Len(last.ret) = (IF last.max_results.n < 3 THEN last.max_results.n ELSE 3)
       /\ \A k \in 1..Len(last.ret) :
            /\ last.ret[k].title = DomainTitles[k]
            /\ last.ret[k].url = _get_domain_contexts[k].url
            /\ last.ret[k].content = _get_domain_contexts[k].content
            /\ last.ret[k].metadata = _get_domain_contexts[k].metadata
            /\ last.ret[k].provider = "Domain (Planck/CAMB/CLASSY)"

\* the adapter was asked for more than it has, with a query that none of
\* its documents contains, and returned the whole list
C21_Witness ==
  /\ last.op = "domain_retrieve"
  /\ last.query = <<"z","z">>
  /\ last.max_results.isInt
  /\ last.max_results.n > 3
  /\ Len(last.ret) = 3

\* the adapter was asked for fewer than it has
C21_Truncated ==
  /\ last.op = "domain_retrieve"
  /\ last.max_results = IntArg(2)
  /\ Len(last.ret) = 2
  /\ ~api_key

\* C22: PerplexityAdapter.retrieve never fails and never returns a real
\* search result: with or without the credential it returns the one
\* synthetic placeholder result, whose metadata carries fallback = true.
C22_PerplexityReturnsPlaceholder ==
  (last.op = "adapter_retrieve" /\ last.provider = Member("PERPLEXITY")) =>
    /\ ~last.raised
    /\ Len(last.ret) = 1
    /\ last.ret[1].title = << "Web Search Fallback" >>
    /\ last.ret[1].url = << "https://perplexity.ai" >>
    /\ last.ret[1].content = << "Perplexity search for: " >> \o last.query
    /\ last.ret[1].metadata.fallback = TRUE
    /\ last.ret[1].metadata.query = last.query

\* the adapter was called with the credential configured and returned the
\* placeholder
C22_Witness ==
  /\ last.op = "adapter_retrieve"
  /\ last.provider = Member("PERPLEXITY")
  /\ last.avail["PERPLEXITY"]
  /\ api_key
  /\ Len(last.ret) = 1
  /\ last.ret[1].metadata.fallback

\* the adapter was called without the credential, with a max_results that
\* is no integer
C22_WithoutCredential ==
  /\ last.op = "adapter_retrieve"
  /\ last.provider = Member("PERPLEXITY")
  /\ ~api_key
  /\ ~last.max_results.isInt
  /\ Len(last.ret) = 1

\* the order in which one retrieve_with_fallback call can try the
\* providers: the preferred one when it is available, then the other
\* available ones in the order of the enumeration
TryOrder(preferred, avail) ==
  (IF avail[preferred] THEN << preferred >> ELSE << >>)
  \o SelectSeq(RAGProvider, LAMBDA p : p # preferred /\ avail[p])

\* C23: within one retrieve_with_fallback call the providers are tried one
\* after another, the preferred one first and then the other available ones
\* in enumeration order; each provider's retrieve is invoked at most once,
\* at most 4 times in all, and none is invoked after the first one that
\* returned a non-empty list.
C23_FallbackTriesInOrderAndStops ==
  last.op = "retrieve_with_fallback" =>
    /\ Len(last.invoked) <= 4
    /\ \A j, k \in 1..Len(last.invoked) : j # k => last.invoked[j] # last.invoked[k]
    /\ ~Recognized(last.provider) => last.invoked = << >>
    /\ Recognized(last.provider) =>
         /\ Len(last.invoked) <= Len(TryOrder(Resolve(last.provider), last.avail))
         /\ last.invoked = SubSeq(TryOrder(Resolve(last.provider), last.avail), 1, Len(last.invoked))
         /\ \A k \in 1..(Len(last.invoked) - 1) : last.yields[last.invoked[k]] = << >>
         /\ Len(last.invoked) < Len(TryOrder(Resolve(last.provider), last.avail)) =>
              /\ last.invoked # << >>
              /\ last.yields[last.invoked[Len(last.invoked)]] # << >>
              /\ last.ret = last.yields[last.invoked[Len(last.invoked)]]

\* the preferred provider and the next one yielded nothing and a third
\* was tried
C23_Witness ==
  /\ last.op = "retrieve_with_fallback"
  /\ Len(last.invoked) = 3
  /\ last.invoked[1] = Resolve(last.provider)
  /\ last.yields[last.invoked[1]] = << >>
  /\ last.yields[last.invoked[2]] = << >>

\* the call stopped at the second provider although a third was available
C23_StoppedEarly ==
  /\ last.op = "retrieve_with_fallback"
  /\ Recognized(last.provider)
  /\ Len(last.invoked) = 2
  /\ Len(TryOrder(Resolve(last.provider), last.avail)) > 2
  /\ last.ret # << >>

(***************************************************************************)
(* Properties of the match contexts, checked under SpecContext and         *)
(* FairContext.                                                            *)
(***************************************************************************)
\* the positions (from 0) where the query occurs in the preview, letter
\* case aside
Occurrences(content, query) ==
  {p \in 0..(Len(content) - Len(query)) :
     Lower(SubSeq(content, p + 1, p + Len(query))) = Lower(query)}

\* the first n elements of a set of positions, in increasing order
RECURSIVE FirstPositions(_, _)
FirstPositions(ps, n) ==
  IF n = 0 \/ ps = {} THEN << >>
  ELSE << Min(ps) >> \o FirstPositions(ps \ {Min(ps)}, n - 1)

\* the preview from at most 100 characters before the match at p to at
\* most 100 characters after its end
StatedContext(content, query, p) ==
  Slice(content,
        IF p > WindowLen THEN p - WindowLen ELSE 0,
        IF p + Len(query) + WindowLen < Len(content)
          THEN p + Len(query) + WindowLen ELSE Len(content))

StatedContexts(content, query) ==
  LET ps == FirstPositions(Occurrences(content, query), 3)
  IN  [k \in 1..Len(ps) |-> StatedContext(content, query, ps[k])]

\* a call of _get_match_context that has left its loop
ContextReturned == last.op = "get_match_context" /\ ~last.running

\* C24: for every document and query the match contexts are at most 3, one
\* per occurrence of the query in the content preview in increasing
\* position, each the preview text from at most 100 characters before the
\* match start to at most 100 characters after the match end, clipped to
\* the preview.
C24_ContextsAreWindowsAroundMatches ==
  ContextReturned =>
    /\ Len(last.ret) <= 3
    /\ last.ret = StatedContexts(last.text, last.query)

\* what holds of the contexts whatever the preview: at most 3, none when
\* the query is not a substring of the lowered preview, and the result of
\* the method as search uses it
ContextsAgree ==
  ContextReturned =>
    /\ Len(last.ret) <= 3
    /\ last.ret = _get_match_context([content |-> last.text], last.query)
    /\ (\A i \in 1..Len(last.text) : last.text[i] # DottedI) =>
         /\ Len(last.ret) = Len(StatedContexts(last.text, last.query))
         /\ \A k \in 1..Len(last.ret) :
              last.ret[k] = Strip(StatedContexts(last.text, last.query)[k])

\* C30: _get_match_context terminates for every content preview and every
\* query, the empty query and an empty preview included: start grows on
\* every iteration that finds a match, the loop is left after at most 3
\* matches or when no further occurrence exists, and every call that
\* entered the loop leaves it.
C30_MatchContextTerminates ==
  /\ [][(last.op = "get_match_context" /\ last.running /\ last'.op = "get_match_context") =>
          /\ Len(last.ret) < 3
          /\ \/ /\ ~last'.running
                /\ last'.ret = last.ret
                /\ Find(Lower(last.text), Lower(last.query), last.start) = -1
             \/ /\ last'.start > last.start
                /\ Len(last'.ret) = Len(last.ret) + 1
                /\ last'.running <=> Len(last'.ret) < 3]_vars
  /\ (last.op = "get_match_context" /\ last.running) ~> ContextReturned

\* the call with an empty preview and the empty query has left the loop,
\* with the one empty context
C30_Witness ==
  /\ ContextReturned
  /\ last.text = << >>
  /\ last.query = << >>
  /\ last.ret = << << >> >>
  /\ last.start = 1

\* the empty query stopped at the limit of three matches
C30_EmptyQueryStopsAtThree ==
  /\ ContextReturned
  /\ last.query = << >>
  /\ Len(last.ret) = 3
  /\ last.start = 3

(***************************************************************************)
(* Properties of the rebuild and of retrieval, checked under SpecIndex.    *)
(***************************************************************************)
\* how often the doc id stands in the list
Occurs(doc_id, docs) == Cardinality({i \in 1..Len(docs) : docs[i] = doc_id})

\* the relationships of the documents, in the order of the documents
RECURSIVE RelationshipsOf(_)
RelationshipsOf(documents) ==
  IF documents = << >> THEN << >>
  ELSE Head(documents).relationships \o RelationshipsOf(Tail(documents))

\* C25: after index_corpus completes a rebuild the index in memory is
\* determined by that scan alone: documents holds exactly one entry per
\* file of the scan that was read, a doc id is listed under an entity
\* exactly when the entity is in that document's entity list, and then
\* once, and no document, entity or relationship of the previous index
\* survives.
C25_RebuildIsDeterminedByScan ==
  (last.op = "index_corpus" /\ last.scanned /\ ~last.raised) =>
    /\ Len(index.documents) = Cardinality(ReadableFiles)
    /\ \A f \in ReadableFiles :
         Cardinality({k \in 1..Len(index.documents) :
                        index.documents[k].path = PathStr(f)}) = 1
    /\ \A j, k \in 1..Len(index.entities) :
         j # k => index.entities[j].entity # index.entities[k].entity
    /\ \A k \in 1..Len(index.entities) :
         /\ index.entities[k].docs # << >>
         /\ \A d \in Range(index.entities[k].docs) :
              \E j \in 1..Len(index.documents) : index.documents[j].id = d
         /\ \A j \in 1..Len(index.documents) :
              Occurs(index.documents[j].id, index.entities[k].docs)
                = (IF index.entities[k].entity \in Range(index.documents[j].entities)
                     THEN 1 ELSE 0)
    /\ \A j \in 1..Len(index.documents) :
         \A e \in Range(index.documents[j].entities) :
           \E k \in 1..Len(index.entities) : index.entities[k].entity = e
    /\ index.relationships = RelationshipsOf(index.documents)

\* a rebuild after a file was removed: the index held two documents, an
\* entity and a relationship that the scan no longer finds, and holds one
\* document now
C25_Witness ==
  /\ last.op = "index_corpus"
  /\ last.scanned
  /\ ~last.raised
  /\ Len(last.before.index.documents) = 2
  /\ last.before.index.relationships # << >>
  /\ Len(last.before.index.entities) = 2
  /\ Len(index.documents) = 1
  /\ Len(index.entities) = 1
  /\ index.relationships = << >>

\* a rebuild that found the same entity in two documents
C25_SharedEntity ==
  /\ last.op = "index_corpus"
  /\ last.scanned
  /\ ~last.raised
  /\ \E k \in 1..Len(index.entities) : Len(index.entities[k].docs) = 2

\* C26: index_corpus returns status "skipped" if and only if force_rebuild
\* is false and the documents mapping in memory is not empty; while the
\* index holds no document every index_corpus(force_rebuild=False) scans
\* the corpus again and returns status "success".
C26_SkippedIffIndexedAndNotForced ==
  last.op = "index_corpus" =>
    /\ last.result.status \in {"skipped", "success"}
    /\ last.result.status = "skipped" <=>
         (~last.force /\ last.before.index.documents # << >>)
    /\ last.result.status = "skipped" <=> ~last.scanned
    /\ last.before.index.documents = << >> =>
         /\ last.scanned
         /\ last.result.status = "success"
         /\ Len(index.documents) = Cardinality(ReadableFiles)

\* index_corpus(False) on an index without documents over a corpus without
\* readable files: the corpus was scanned, and the index is still empty
C26_Witness ==
  /\ last.op = "index_corpus"
  /\ ~last.force
  /\ last.before.index.documents = << >>
  /\ last.scanned
  /\ last.result.status = "success"
  /\ index.documents = << >>

\* index_corpus(True) on an index with documents rebuilt it
C26_ForcedRebuild ==
  /\ last.op = "index_corpus"
  /\ last.force
  /\ last.before.index.documents # << >>
  /\ last.scanned
  /\ last.result.status = "success"

\* the calls that only read the index
ReadOps == {"search", "get_entity_info", "retriever_retrieve", "retriever_stats"}

\* C27: retrieval is read-only on the index: search, get_entity_info,
\* GraphRAGRetriever.retrieve and get_corpus_stats leave documents,
\* entities, relationships and the index files unchanged, and once the
\* retriever is constructed no retrieve call indexes the corpus, so a
\* retriever whose index was empty after construction returns [] for every
\* later query.
C27_RetrievalIsReadOnly ==
  /\ last.op \in ReadOps =>
       /\ index = last.before.index
       /\ disk = last.before.disk
  /\ (last.op = "retriever_retrieve" /\ last.before.index.documents = << >>) =>
       /\ ~last.raised
       /\ last.ret = << >>
       /\ index.documents = << >>
  /\ (last.op = "retriever_stats" /\ last.before.index.documents = << >>) =>
       last.result.documents = 0

\* the retriever was constructed over a corpus without readable files; the
\* corpus holds a file that matches the query now, and retrieve returned
\* nothing
C27_Witness ==
  /\ last.op = "retriever_retrieve"
  /\ singleton["GRAPHRAG"] # 0
  /\ index.documents = << >>
  /\ corpus[1] = "ok"
  /\ last.query = <<"c","m","b">>
  /\ last.max_results = IntArg(1)
  /\ last.ret = << >>

\* get_entity_info returned the documents and the relationship of an entity
C27_EntityInfoRead ==
  /\ last.op = "get_entity_info"
  /\ last.result.documents # << >>
  /\ last.result.relationships # << >>
  /\ last.result.document_count = 2

(***************************************************************************)
(* Properties of the results of the facade, checked under Spec.            *)
(***************************************************************************)
\* C28: for every query, every preferred provider that is recognized and
\* every max_results >= 1, retrieve_with_fallback returns a non-empty list:
\* the static domain provider is always available and is reached whenever
\* every provider tried before it yielded nothing.
C28_FallbackReachesDomain ==
  (/\ last.op = "retrieve_with_fallback"
   /\ Recognized(last.provider)
   /\ last.max_results.isInt
   /\ last.max_results.n >= 1) =>
    /\ last.ret # << >>
    /\ last.avail["DOMAIN"]
    /\ last.yields["DOMAIN"] # << >>
    /\ (\A k \in 1..Len(last.invoked) : last.yields[last.invoked[k]] = << >> \/ last.invoked[k] = "DOMAIN")
         => /\ last.invoked # << >>
            /\ last.invoked[Len(last.invoked)] = "DOMAIN"
            /\ last.ret = last.yields["DOMAIN"]

\* the preferred provider yielded nothing, the credential is not
\* configured, and the list returned is the static domain provider's
C28_Witness ==
  /\ last.op = "retrieve_with_fallback"
  /\ Recognized(last.provider)
  /\ Resolve(last.provider) \in LazyProviders
  /\ last.max_results = IntArg(1)
  /\ ~last.avail["PERPLEXITY"]
  /\ Len(last.invoked) = 2
  /\ last.invoked[2] = "DOMAIN"
  /\ Len(last.ret) = 1
  /\ last.ret[1].provider = "Domain (Planck/CAMB/CLASSY)"

\* C29: every RetrievalResult returned by UnifiedRAGAdapter.retrieve(query,
\* p) has its provider field equal to the value of p, and all results of one
\* retrieve_with_fallback call carry the same provider value: the results
\* of different providers are never mixed in one list.
C29_ResultsCarryOneProvider ==
  /\ (last.op = "retrieve" /\ Recognized(last.provider)) =>
       \A k \in 1..Len(last.ret) :
         last.ret[k].provider = ProviderValue(Resolve(last.provider))
  /\ last.op = "retrieve_with_fallback" =>
       /\ \A j, k \in 1..Len(last.ret) : last.ret[j].provider = last.ret[k].provider
       /\ last.ret # << >> =>
            /\ last.invoked # << >>
            /\ \A k \in 1..Len(last.ret) :
                 last.ret[k].provider = ProviderValue(last.invoked[Len(last.invoked)])

\* a fallback call returned two results of the provider tried second
C29_Witness ==
  /\ last.op = "retrieve_with_fallback"
  /\ Len(last.invoked) = 2
  /\ Len(last.ret) = 2
  /\ last.ret[1].provider = ProviderValue(last.invoked[2])
  /\ last.ret[2].provider = ProviderValue(last.invoked[2])
  /\ Recognized(last.provider)
  /\ last.invoked[2] # Resolve(last.provider)

\* retrieve returned a paper of the arXiv provider, named by its value
C29_ArxivByValue ==
  /\ last.op = "retrieve"
  /\ last.provider = Str("arXiv (academic papers)")
  /\ last.ret # << >>
  /\ last.ret[1].provider = "arXiv (academic papers)"

\* retrieve returned a document of the local corpus
C29_GraphRAG ==
  /\ last.op = "retrieve"
  /\ last.provider = Member("GRAPHRAG")
  /\ last.ret # << >>
  /\ last.ret[1].provider = "GraphRAG (local corpus)"

=============================================================================
